---- MODULE Spec2Model ----
(***************************************************************************)
(* Model of scripts/update_sports.py (Sports Dashboard Data Updater v2.2): *)
(* the EPL match classifier (check_epl_rules, get_best_tier,               *)
(* process_epl_matches), the entity normalizer (normalize_team_name,       *)
(* is_big_6), the fixture fetch (get_epl_standings, get_epl_matches) and   *)
(* the run that persists sports.json (update_sports_data).                 *)
(*                                                                         *)
(* Strings that the code inspects character by character (team names) are  *)
(* sequences of one-character strings; strings it only stores or compares  *)
(* whole (statuses, rule tags, channels) are TLA+ strings.                 *)
(***************************************************************************)
EXTENDS Integers, Sequences, FiniteSets, TLC

(***************************************************************************)
(* Python values.  TLC compares values of one type only, so None is        *)
(* written per type: None for a string, NoneInt for a number, and <<>> for *)
(* a missing name or list (the code reads both with `if x` / `not x`) and  *)
(* for a missing record (an absent file, a failed conversion), whose       *)
(* present form is the one-element sequence <<record>>.                    *)
(***************************************************************************)
None == "None"
NoneInt == 0 - 1
truthy(n) == n # NoneInt /\ n # 0

(***************************************************************************)
(* String helpers: str.lower, `a in b`, str.replace(old, ""), str.strip.   *)
(***************************************************************************)
LowerCase == [A |-> "a", B |-> "b", C |-> "c", D |-> "d", E |-> "e", F |-> "f", G |-> "g", H |-> "h", I |-> "i", J |-> "j", K |-> "k", L |-> "l", M |-> "m", N |-> "n", O |-> "o", P |-> "p", Q |-> "q", R |-> "r", S |-> "s", T |-> "t", U |-> "u", V |-> "v", W |-> "w", X |-> "x", Y |-> "y", Z |-> "z"]

str_lower(s) ==
    [i \in 1..Len(s) |-> IF s[i] \in DOMAIN LowerCase THEN LowerCase[s[i]] ELSE s[i]]

\* Python `sub in s` on strings: sub occurs in s as a contiguous substring.
str_in(sub, s) ==
    \E i \in 0..(Len(s) - Len(sub)) : SubSeq(s, i + 1, i + Len(sub)) = sub

\* s.replace(old, ""): leftmost non-overlapping occurrences removed (old non-empty).
RECURSIVE str_remove(_, _)
str_remove(s, old) ==
    IF Len(s) < Len(old) THEN s
    ELSE IF SubSeq(s, 1, Len(old)) = old
         THEN str_remove(SubSeq(s, Len(old) + 1, Len(s)), old)
         ELSE <<Head(s)>> \o str_remove(Tail(s), old)

RECURSIVE str_lstrip(_)
str_lstrip(s) ==
    IF s # <<>> /\ Head(s) = " " THEN str_lstrip(Tail(s)) ELSE s

RECURSIVE str_rstrip(_)
str_rstrip(s) ==
    IF s # <<>> /\ s[Len(s)] = " " THEN str_rstrip(SubSeq(s, 1, Len(s) - 1)) ELSE s

str_strip(s) == str_rstrip(str_lstrip(s))

(***************************************************************************)
(* Team names.                                                             *)
(***************************************************************************)
ManchesterCity == <<"M","a","n","c","h","e","s","t","e","r"," ","C","i","t","y">>
ManchesterUnited == <<"M","a","n","c","h","e","s","t","e","r"," ","U","n","i","t","e","d">>
Liverpool == <<"L","i","v","e","r","p","o","o","l">>
Arsenal == <<"A","r","s","e","n","a","l">>
Chelsea == <<"C","h","e","l","s","e","a">>
Tottenham == <<"T","o","t","t","e","n","h","a","m">>
ManCity == <<"M","a","n"," ","C","i","t","y">>
ManchesterCityFC == <<"M","a","n","c","h","e","s","t","e","r"," ","C","i","t","y"," ","F","C">>
ManUtd == <<"M","a","n"," ","U","t","d">>
ManchesterUnitedFC == <<"M","a","n","c","h","e","s","t","e","r"," ","U","n","i","t","e","d"," ","F","C">>
LiverpoolFC == <<"L","i","v","e","r","p","o","o","l"," ","F","C">>
ArsenalFC == <<"A","r","s","e","n","a","l"," ","F","C">>
ChelseaFC == <<"C","h","e","l","s","e","a"," ","F","C">>
Spurs == <<"S","p","u","r","s">>
TottenhamHotspur == <<"T","o","t","t","e","n","h","a","m"," ","H","o","t","s","p","u","r">>
TottenhamHotspurFC == <<"T","o","t","t","e","n","h","a","m"," ","H","o","t","s","p","u","r"," ","F","C">>
AstonVillaFC == <<"A","s","t","o","n"," ","V","i","l","l","a"," ","F","C">>
FulhamFC == <<"F","u","l","h","a","m"," ","F","C">>
BrentfordFC == <<"B","r","e","n","t","f","o","r","d"," ","F","C">>
NewcastleUnitedFC == <<"N","e","w","c","a","s","t","l","e"," ","U","n","i","t","e","d"," ","F","C">>
SuffixFC == <<" ","F","C">>

\* BIG_6_ALIASES with "Spurs" mapped to a name that is itself an alias.
BIG_6_ALIASES_spurs_to_alias ==
    << <<ManCity, ManchesterCity>>,
       <<ManchesterCityFC, ManchesterCity>>,
       <<ManUtd, ManchesterUnited>>,
       <<ManchesterUnitedFC, ManchesterUnited>>,
       <<LiverpoolFC, Liverpool>>,
       <<ArsenalFC, Arsenal>>,
       <<ChelseaFC, Chelsea>>,
       <<Spurs, TottenhamHotspur>>,
       <<TottenhamHotspur, Tottenham>>,
       <<TottenhamHotspurFC, Tottenham>> >>

\* BIG_6 and BIG_6_ALIASES (a dict: iterated in insertion order).
BIG_6 == <<ManchesterCity, ManchesterUnited, Liverpool, Arsenal, Chelsea, Tottenham>>

BIG_6_ALIASES ==
    << <<ManCity, ManchesterCity>>,
       <<ManchesterCityFC, ManchesterCity>>,
       <<ManUtd, ManchesterUnited>>,
       <<ManchesterUnitedFC, ManchesterUnited>>,
       <<LiverpoolFC, Liverpool>>,
       <<ArsenalFC, Arsenal>>,
       <<ChelseaFC, Chelsea>>,
       <<Spurs, Tottenham>>,
       <<TottenhamHotspur, Tottenham>>,
       <<TottenhamHotspurFC, Tottenham>> >>

(***************************************************************************)
(* Entity normalizer.                                                      *)
(***************************************************************************)
normalize_team_name(name) ==
    IF \E k \in DOMAIN BIG_6_ALIASES : BIG_6_ALIASES[k][1] = name
    THEN LET k == CHOOSE k \in DOMAIN BIG_6_ALIASES : BIG_6_ALIASES[k][1] = name
         IN  BIG_6_ALIASES[k][2]
    ELSE LET hits == {k \in DOMAIN BIG_6_ALIASES :
                          str_in(str_lower(BIG_6_ALIASES[k][1]), str_lower(name))}
         IN  IF hits # {}
             THEN BIG_6_ALIASES[CHOOSE k \in hits : \A j \in hits : k <= j][2]
             ELSE str_strip(str_remove(name, SuffixFC))

is_big_6(team_name) ==
    LET norm == normalize_team_name(team_name)
    IN  \E i \in DOMAIN BIG_6 :
            \/ str_in(str_lower(BIG_6[i]), str_lower(norm))
            \/ str_in(str_lower(norm), str_lower(BIG_6[i]))

(***************************************************************************)
(* Evaluation cache.  The names the modelled sources and the script's own  *)
(* constants can produce are finitely many; both functions are tabulated   *)
(* over them once, and every call site reads the table (falling back to    *)
(* the function for any other name).                                       *)
(***************************************************************************)
KnownNames ==
    LET raw == {BIG_6[i] : i \in DOMAIN BIG_6}
               \cup {BIG_6_ALIASES[i][1] : i \in DOMAIN BIG_6_ALIASES}
               \cup {AstonVillaFC, FulhamFC, BrentfordFC, NewcastleUnitedFC}
    IN  raw \cup {normalize_team_name(n) : n \in raw}

NormalizeTable == [n \in KnownNames |-> normalize_team_name(n)]
IsBig6Table == [n \in KnownNames |-> is_big_6(n)]

\* table[name] when the table holds the name, else the value computed for it.
cached(table, name, value) == IF name \in DOMAIN table THEN table[name] ELSE value

normalized(name) == cached(NormalizeTable, name, normalize_team_name(name))

big_6(team_name) == cached(IsBig6Table, team_name, is_big_6(team_name))

(***************************************************************************)
(* Timezone normalizer.  A utcDate that parses is <<t>>, t the instant in  *)
(* minutes since Monday 00:00 UTC of the first modelled week; a missing    *)
(* utcDate ('') is <<>>, and any longer sequence is text that              *)
(* datetime.fromisoformat rejects.  The modelled weeks lie in the winter   *)
(* half of the season: Europe/London is on GMT, Asia/Seoul nine hours      *)
(* ahead.  An aware datetime compares by instant, so datetime_kst is the   *)
(* KST wall-clock minute count.                                            *)
(***************************************************************************)
DayNames == <<"Monday", "Tuesday", "Wednesday", "Thursday", "Friday", "Saturday", "Sunday">>
MinutesPerDay == 24 * 60
MinutesPerWeek == 7 * MinutesPerDay
TZ_KST == 9 * 60
TZ_UK == 0 * 60

hhmm(h, m) == h * 60 + m

convert_utc_to_kst(utc_datetime_str) ==
    IF Len(utc_datetime_str) # 1
    THEN <<>>
    ELSE LET utc_dt == utc_datetime_str[1]
             kst_dt == utc_dt + TZ_KST
             uk_dt  == utc_dt + TZ_UK
         IN  << [kst_full     |-> <<kst_dt \div MinutesPerDay, kst_dt % MinutesPerDay>>,
                 uk_time      |-> uk_dt % MinutesPerDay,
                 uk_day       |-> DayNames[((uk_dt \div MinutesPerDay) % 7) + 1],
                 uk_date      |-> uk_dt \div MinutesPerDay,
                 datetime_kst |-> kst_dt] >>

(***************************************************************************)
(* The six rules and their tier priority.                                  *)
(***************************************************************************)
TIER_PRIORITY ==
    [r \in {"Big Match", "Top Tier", "Challenger", "Prime Time", "Early KO", "Leader"} |->
        CASE r = "Big Match"  -> 1
          [] r = "Top Tier"   -> 2
          [] r = "Challenger" -> 3
          [] r = "Prime Time" -> 4
          [] r = "Early KO"   -> 5
          [] r = "Leader"     -> 6]

MAX_EPL_MATCHES == 3

\* Python `x in lst` for a list.
list_in(x, lst) == \E i \in DOMAIN lst : lst[i] = x

\* Variant: the Challenger test without the "not big 6" conjuncts.
check_epl_rules_tests_any_top4(home_norm, away_norm, home_is_big6, away_is_big6, home_is_top4, away_is_top4, leader_norm, uk_day, uk_time) ==
    (IF home_is_big6 /\ away_is_big6 THEN <<"Big Match">> ELSE <<>>)
    \o (IF home_is_top4 /\ away_is_top4 THEN <<"Top Tier">> ELSE <<>>)
    \o (IF (home_is_top4 /\ away_is_big6) \/ (away_is_top4 /\ home_is_big6)
        THEN <<"Challenger">> ELSE <<>>)
    \o (IF uk_day = "Sunday" /\ uk_time = hhmm(16, 30) THEN <<"Prime Time">> ELSE <<>>)
    \o (IF uk_day = "Saturday" /\ uk_time = hhmm(12, 30) THEN <<"Early KO">> ELSE <<>>)
    \o (IF /\ leader_norm # <<>>
           /\ \/ str_in(leader_norm, home_norm) \/ str_in(home_norm, leader_norm)
              \/ str_in(leader_norm, away_norm) \/ str_in(away_norm, leader_norm)
        THEN <<"Leader">> ELSE <<>>)

\* Variant: the day/time tests asked only of fixtures with a big-6 side.
check_epl_rules_tests_slots_need_big6(home_norm, away_norm, home_is_big6, away_is_big6, home_is_top4, away_is_top4, leader_norm, uk_day, uk_time) ==
    (IF home_is_big6 /\ away_is_big6 THEN <<"Big Match">> ELSE <<>>)
    \o (IF home_is_top4 /\ away_is_top4 THEN <<"Top Tier">> ELSE <<>>)
    \o (IF \/ (home_is_top4 /\ ~home_is_big6 /\ away_is_big6)
           \/ (away_is_top4 /\ ~away_is_big6 /\ home_is_big6)
        THEN <<"Challenger">> ELSE <<>>)
    \o (IF (home_is_big6 \/ away_is_big6) /\ uk_day = "Sunday" /\ uk_time = hhmm(16, 30)
        THEN <<"Prime Time">> ELSE <<>>)
    \o (IF (home_is_big6 \/ away_is_big6) /\ uk_day = "Saturday" /\ uk_time = hhmm(12, 30)
        THEN <<"Early KO">> ELSE <<>>)
    \o (IF /\ leader_norm # <<>>
           /\ \/ str_in(leader_norm, home_norm) \/ str_in(home_norm, leader_norm)
              \/ str_in(leader_norm, away_norm) \/ str_in(away_norm, leader_norm)
        THEN <<"Leader">> ELSE <<>>)

\* The six tests of check_epl_rules, on the function's local variables.
check_epl_rules_tests(home_norm, away_norm, home_is_big6, away_is_big6, home_is_top4, away_is_top4, leader_norm, uk_day, uk_time) ==
    (IF home_is_big6 /\ away_is_big6 THEN <<"Big Match">> ELSE <<>>)
    \o (IF home_is_top4 /\ away_is_top4 THEN <<"Top Tier">> ELSE <<>>)
    \o (IF \/ (home_is_top4 /\ ~home_is_big6 /\ away_is_big6)
           \/ (away_is_top4 /\ ~away_is_big6 /\ home_is_big6)
        THEN <<"Challenger">> ELSE <<>>)
    \o (IF uk_day = "Sunday" /\ uk_time = hhmm(16, 30) THEN <<"Prime Time">> ELSE <<>>)
    \o (IF uk_day = "Saturday" /\ uk_time = hhmm(12, 30) THEN <<"Early KO">> ELSE <<>>)
    \o (IF /\ leader_norm # <<>>
           /\ \/ str_in(leader_norm, home_norm) \/ str_in(home_norm, leader_norm)
              \/ str_in(leader_norm, away_norm) \/ str_in(away_norm, leader_norm)
        THEN <<"Leader">> ELSE <<>>)

\* The big-6 and top-4 flags of the two normalized names.
check_epl_rules_flags(home_norm, away_norm, uk_day, uk_time, top_4, leader_norm) ==
    check_epl_rules_tests(home_norm, away_norm, big_6(home_norm), big_6(away_norm),
                          list_in(home_norm, top_4), list_in(away_norm, top_4),
                          leader_norm, uk_day, uk_time)

check_epl_rules(home, away, uk_day, uk_time, top_4, leader) ==
    check_epl_rules_flags(normalized(home), normalized(away), uk_day, uk_time, top_4,
                          IF leader # <<>> THEN normalized(leader) ELSE <<>>)

get_best_tier(rules) ==
    IF rules = <<>>
    THEN 99
    ELSE LET tiers == {IF rules[i] \in DOMAIN TIER_PRIORITY THEN TIER_PRIORITY[rules[i]] ELSE 99 :
                          i \in DOMAIN rules}
         IN  CHOOSE t \in tiers : \A u \in tiers : t <= u

(***************************************************************************)
(* Broadcaster lookup.  The search provider is outside the repository:     *)
(* `web` is what it answers during one run, "down" (no usable answer for   *)
(* any query) or "up", when the text it returns for a fixture names the    *)
(* channel of WebListing.                                                  *)
(***************************************************************************)
WebListing(home, away) ==
    IF home = Arsenal \/ away = Arsenal THEN "Sky Sports Main Event"
    ELSE IF home = ManchesterCity \/ away = ManchesterCity THEN "TNT Sports 1"
    ELSE None

search_epl_broadcaster(home, away, match_date, serper_key, web) ==
    IF serper_key = None THEN None
    ELSE IF web = "up" THEN WebListing(home, away)
    ELSE None

(***************************************************************************)
(* process_epl_matches.  A match of the API is a record                    *)
(*   [id, homeTeam, awayTeam, utcDate, matchday, status, score]            *)
(* with score the fullTime pair [home, away]; a score string "h-a" is the  *)
(* pair <<h, a>> and the placeholder '-' is <<>>.                          *)
(***************************************************************************)
SCORE_PLACEHOLDER == <<>>

\* `existing_data and 'epl' in existing_data`.
has_epl(existing_data) == existing_data # <<>> /\ "epl" \in DOMAIN existing_data[1]

\* Variant: an empty selected_matches falls back on the older "matches" key.
existing_selected_of_or_matches(existing_data) ==
    IF has_epl(existing_data)
    THEN IF /\ "selected_matches" \in DOMAIN existing_data[1].epl
            /\ existing_data[1].epl.selected_matches # <<>>
         THEN existing_data[1].epl.selected_matches
         ELSE existing_data[1].epl.matches
    ELSE <<>>

\* existing_epl.get('selected_matches', []).
existing_selected_of(existing_data) ==
    IF has_epl(existing_data) /\ "selected_matches" \in DOMAIN existing_data[1].epl
    THEN existing_data[1].epl.selected_matches
    ELSE <<>>

\* existing_epl.get('selected_round').
existing_round_of(existing_data) ==
    IF has_epl(existing_data) /\ "selected_round" \in DOMAIN existing_data[1].epl
    THEN existing_data[1].epl.selected_round
    ELSE NoneInt

\* The entries m with a true m.get('match_id').
existing_ids_of(existing_selected) ==
    {existing_selected[i].match_id : i \in {j \in DOMAIN existing_selected :
                                              /\ "match_id" \in DOMAIN existing_selected[j]
                                              /\ truthy(existing_selected[j].match_id)}}

\* current_matches_by_id.get(match_id): <<>> or <<match>>; a later match of the
\* list overwrites an earlier one with the same id.
current_matches_by_id(matches, match_id) ==
    LET at == {i \in DOMAIN matches : truthy(matches[i].id) /\ matches[i].id = match_id}
    IN  IF at = {} THEN <<>>
        ELSE <<matches[CHOOSE i \in at : \A j \in at : j <= i]>>

score_string(current) == <<current.score.home, current.score.away>>

\* Variant: a refreshed entry loses its broadcaster.
updated_match_resets_channel(sel_match, current) ==
    IF current # <<>>
    THEN [sel_match EXCEPT
            !.status = current[1].status,
            !.score  = IF current[1].status = "FINISHED" \/ current[1].status = "IN_PLAY"
                       THEN score_string(current[1])
                       ELSE SCORE_PLACEHOLDER,
            !.local  = ""]
    ELSE sel_match

\* One iteration of the loop over existing_selected: the entry appended to
\* updated_matches, and whether the iteration clears all_finished.
updated_match(sel_match, current) ==
    IF current # <<>>
    THEN [sel_match EXCEPT
            !.status = current[1].status,
            !.score  = IF current[1].status = "FINISHED" \/ current[1].status = "IN_PLAY"
                       THEN score_string(current[1])
                       ELSE SCORE_PLACEHOLDER]
    ELSE sel_match

\* Variant: the stored status decides even when the fetch lists the match.
clears_all_finished_stored(sel_match, current) ==
    sel_match.status # "FINISHED"

clears_all_finished(sel_match, current) ==
    IF current # <<>>
    THEN current[1].status # "FINISHED"
    ELSE sel_match.status # "FINISHED"

\* Variant: members the fetch does not list are dropped from the batch.
updated_matches_found(existing_selected, matches) ==
    SelectSeq([i \in DOMAIN existing_selected |->
                  updated_match(existing_selected[i],
                                current_matches_by_id(matches, existing_selected[i].match_id))],
              LAMBDA m : current_matches_by_id(matches, m.match_id) # <<>>)

updated_matches(existing_selected, matches) ==
    [i \in DOMAIN existing_selected |->
        updated_match(existing_selected[i],
                      current_matches_by_id(matches, existing_selected[i].match_id))]

\* Variant: a member missing from the fetch does not keep the batch alive.
all_finished_found_only(existing_selected, matches) ==
    \A i \in DOMAIN existing_selected :
        LET current == current_matches_by_id(matches, existing_selected[i].match_id)
        IN  current # <<>> => current[1].status = "FINISHED"

all_finished(existing_selected, matches) ==
    \A i \in DOMAIN existing_selected :
        ~clears_all_finished(existing_selected[i],
                             current_matches_by_id(matches, existing_selected[i].match_id))

RECURSIVE join_rules(_)
join_rules(rules) ==
    IF Len(rules) <= 1 THEN rules
    ELSE <<Head(rules), ", ">> \o join_rules(Tail(rules))

\* Variant: the entry is appended whether or not a rule applies.
validated_entry_any_rules(match, ti, rules, home_norm, away_norm, channel) ==
    << [match_id     |-> match.id,
        home         |-> home_norm,
        away         |-> away_norm,
        kst_time     |-> ti.kst_full,
        uk_time      |-> <<ti.uk_day, ti.uk_time>>,
        local        |-> IF channel # None THEN channel ELSE "",
        rules        |-> rules,
        rule_str     |-> join_rules(rules),
        matchday     |-> match.matchday,
        status       |-> "SCHEDULED",
        score        |-> SCORE_PLACEHOLDER,
        datetime_kst |-> ti.datetime_kst] >>

\* Variant: a match without a broadcaster is not appended.
validated_entry_listed_only(match, ti, rules, home_norm, away_norm, channel) ==
    IF rules = <<>> \/ channel = None THEN <<>>
    ELSE << [match_id     |-> match.id,
             home         |-> home_norm,
             away         |-> away_norm,
             kst_time     |-> ti.kst_full,
             uk_time      |-> <<ti.uk_day, ti.uk_time>>,
             local        |-> channel,
             rules        |-> rules,
             rule_str     |-> join_rules(rules),
             matchday     |-> match.matchday,
             status       |-> "SCHEDULED",
             score        |-> SCORE_PLACEHOLDER,
             datetime_kst |-> ti.datetime_kst] >>

\* Variant: the entry takes the status the API lists.
validated_entry_source_status(match, ti, rules, home_norm, away_norm, channel) ==
    IF rules = <<>> THEN <<>>
    ELSE << [match_id     |-> match.id,
             home         |-> home_norm,
             away         |-> away_norm,
             kst_time     |-> ti.kst_full,
             uk_time      |-> <<ti.uk_day, ti.uk_time>>,
             local        |-> IF channel # None THEN channel ELSE "",
             rules        |-> rules,
             rule_str     |-> join_rules(rules),
             matchday     |-> match.matchday,
             status       |-> match.status,
             score        |-> SCORE_PLACEHOLDER,
             datetime_kst |-> ti.datetime_kst] >>

\* Variant: the entry is built without the "local" key.
validated_entry_no_local(match, ti, rules, home_norm, away_norm, channel) ==
    IF rules = <<>> THEN <<>>
    ELSE << [match_id     |-> match.id,
             home         |-> home_norm,
             away         |-> away_norm,
             kst_time     |-> ti.kst_full,
             uk_time      |-> <<ti.uk_day, ti.uk_time>>,
             rules        |-> rules,
             rule_str     |-> join_rules(rules),
             matchday     |-> match.matchday,
             status       |-> "SCHEDULED",
             score        |-> SCORE_PLACEHOLDER,
             datetime_kst |-> ti.datetime_kst] >>

\* The entry appended to validated_matches for a match with its rules, or
\* nothing when no rule applies.
validated_entry(match, ti, rules, home_norm, away_norm, channel) ==
    IF rules = <<>> THEN <<>>
    ELSE << [match_id     |-> match.id,
             home         |-> home_norm,
             away         |-> away_norm,
             kst_time     |-> ti.kst_full,
             uk_time      |-> <<ti.uk_day, ti.uk_time>>,
             local        |-> IF channel # None THEN channel ELSE "",
             rules        |-> rules,
             rule_str     |-> join_rules(rules),
             matchday     |-> match.matchday,
             status       |-> "SCHEDULED",
             score        |-> SCORE_PLACEHOLDER,
             datetime_kst |-> ti.datetime_kst] >>

\* Variant: without the search credential no match is appended.
validated_rules_needs_key(match, ti, home_norm, away_norm, top_4, leader, serper_key, web) ==
    IF serper_key = None THEN <<>>
    ELSE validated_entry(match, ti,
                         check_epl_rules(match.homeTeam, match.awayTeam, ti.uk_day, ti.uk_time,
                                         top_4, leader),
                         home_norm, away_norm,
                         search_epl_broadcaster(home_norm, away_norm, ti.uk_date, serper_key, web))

\* The rule check and the broadcaster lookup of a match whose kick-off converted.
validated_rules(match, ti, home_norm, away_norm, top_4, leader, serper_key, web) ==
    validated_entry(match, ti,
                    check_epl_rules(match.homeTeam, match.awayTeam, ti.uk_day, ti.uk_time,
                                    top_4, leader),
                    home_norm, away_norm,
                    IF serper_key # None
                    THEN search_epl_broadcaster(home_norm, away_norm, ti.uk_date, serper_key, web)
                    ELSE None)

validated_time(match, time_info, top_4, leader, serper_key, web) ==
    IF time_info = <<>> THEN <<>>
    ELSE validated_rules(match, time_info[1], normalized(match.homeTeam),
                         normalized(match.awayTeam), top_4, leader, serper_key, web)

\* Variant: FINISHED matches are not skipped.
validated_match_any_status(match, top_4, leader, serper_key, web) ==
    IF match.homeTeam = <<>> \/ match.awayTeam = <<>> \/ match.utcDate = <<>> THEN <<>>
    ELSE validated_time(match, convert_utc_to_kst(match.utcDate), top_4, leader, serper_key, web)

\* The body of the selection loop for one match: <<>> when the match is
\* skipped, else the one entry appended to validated_matches.
validated_match(match, top_4, leader, serper_key, web) ==
    IF match.status = "FINISHED" THEN <<>>
    ELSE IF match.homeTeam = <<>> \/ match.awayTeam = <<>> \/ match.utcDate = <<>> THEN <<>>
    ELSE validated_time(match, convert_utc_to_kst(match.utcDate), top_4, leader, serper_key, web)

RECURSIVE validated_matches(_, _, _, _, _)
validated_matches(matches, top_4, leader, serper_key, web) ==
    IF matches = <<>> THEN <<>>
    ELSE validated_match(Head(matches), top_4, leader, serper_key, web)
         \o validated_matches(Tail(matches), top_4, leader, serper_key, web)

\* Variant: kick-off first, tier second.
sort_key_kickoff_first(m) == <<m.datetime_kst, get_best_tier(m.rules)>>

\* The key of validated_matches.sort, compared as Python compares tuples.
sort_key(m) == <<get_best_tier(m.rules), m.datetime_kst>>

key_less(a, b) == a[1] < b[1] \/ (a[1] = b[1] /\ a[2] < b[2])

\* list.sort is stable: an element goes after every element whose key is not greater.
RECURSIVE insert_sorted(_, _)
insert_sorted(m, sorted) ==
    IF sorted = <<>> THEN <<m>>
    ELSE IF key_less(sort_key(m), sort_key(Head(sorted)))
         THEN <<m>> \o sorted
         ELSE <<Head(sorted)>> \o insert_sorted(m, Tail(sorted))

RECURSIVE list_sort(_)
list_sort(lst) ==
    IF lst = <<>> THEN <<>>
    ELSE insert_sorted(lst[Len(lst)], list_sort(SubSeq(lst, 1, Len(lst) - 1)))

del_datetime_kst(m) == [k \in (DOMAIN m) \ {"datetime_kst"} |-> m[k]]

\* Variant: no truncation.
first_n_all(lst, n) == lst

first_n(lst, n) == SubSeq(lst, 1, IF Len(lst) < n THEN Len(lst) ELSE n)

\* Variant: the datetime objects are left in the selected entries.
without_datetime_kst_kept(lst) == lst

without_datetime_kst(lst) == [i \in DOMAIN lst |-> del_datetime_kst(lst[i])]

\* validated_matches.sort(...), [:MAX_EPL_MATCHES], then the key field deleted.
selected_matches(validated) ==
    without_datetime_kst(first_n(list_sort(validated), MAX_EPL_MATCHES))

\* The carry-over return.
carried_over(existing_selected, existing_round, matches) ==
    [matches          |-> updated_matches(existing_selected, matches),
     selected_round   |-> existing_round,
     is_new_selection |-> FALSE]

\* The return of the fresh selection.
selected_batch(selected) ==
    [matches          |-> selected,
     selected_round   |-> selected[1].matchday,
     is_new_selection |-> TRUE]

newly_selected(validated) ==
    IF validated # <<>>
    THEN selected_batch(selected_matches(validated))
    ELSE [matches          |-> <<>>,
          selected_round   |-> NoneInt,
          is_new_selection |-> TRUE]

\* Variant: an empty fresh selection falls back on the previous batch.
carry_over_or_select_keep(existing_selected, existing_round, matches, top_4, leader, serper_key, web) ==
    IF \/ /\ existing_selected # <<>>
          /\ existing_ids_of(existing_selected) # {}
          /\ ~all_finished(existing_selected, matches)
       \/ validated_matches(matches, top_4, leader, serper_key, web) = <<>>
    THEN carried_over(existing_selected, existing_round, matches)
    ELSE newly_selected(validated_matches(matches, top_4, leader, serper_key, web))

carry_over_or_select(existing_selected, existing_round, matches, top_4, leader, serper_key, web) ==
    IF /\ existing_selected # <<>>
       /\ existing_ids_of(existing_selected) # {}
       /\ ~all_finished(existing_selected, matches)
    THEN carried_over(existing_selected, existing_round, matches)
    ELSE newly_selected(validated_matches(matches, top_4, leader, serper_key, web))

\* Returns (matches, selected_round, is_new_selection).
process_epl_matches(matches, top_4, leader, serper_key, existing_data, web) ==
    carry_over_or_select(existing_selected_of(existing_data), existing_round_of(existing_data),
                         matches, top_4, leader, serper_key, web)

(***************************************************************************)
(* The football source (Football-Data.org), outside the repository.        *)
(* It holds NFix fixtures, ids 1..NFix, the first RoundSize of them in     *)
(* matchday 1, the next RoundSize in matchday 2, and so on.  A fixture's   *)
(* teams, matchday and kick-off never change; its status walks             *)
(*   TIMED -> IN_PLAY -> PAUSED -> FINISHED                                *)
(* (phase 0..3).  The kick-off slots lie more than a match's length apart, *)
(* so a fixture kicks off only after every fixture scheduled before it has *)
(* finished, and the source has moved to a fixture's matchday by the time  *)
(* it kicks off.                                                           *)
(***************************************************************************)
NFix == 5
RoundSize == 4

Ids == 1..NFix
Round(i) == ((i - 1) \div RoundSize) + 1
MaxRound == Round(NFix)

TeamList == <<ArsenalFC, LiverpoolFC, AstonVillaFC, ManchesterCityFC,
              FulhamFC, BrentfordFC, NewcastleUnitedFC, ChelseaFC>>

\* Kick-off slots of a matchweek (UK time): Sunday 16:30, Saturday 12:30, the
\* Monday after the weekend 20:00, Saturday 15:00, Sunday 14:00.
KickSlots == <<6 * MinutesPerDay + hhmm(16, 30), 5 * MinutesPerDay + hhmm(12, 30),
               7 * MinutesPerDay + hhmm(20, 0),  5 * MinutesPerDay + hhmm(15, 0),
               6 * MinutesPerDay + hhmm(14, 0)>>

HomeTeam(i) == TeamList[((2 * (i - 1)) % Len(TeamList)) + 1]
AwayTeam(i) == TeamList[((2 * (i - 1) + 1) % Len(TeamList)) + 1]
KickOffInstant(i) ==
    (Round(i) - 1) * MinutesPerWeek + KickSlots[((i - 1) % Len(KickSlots)) + 1] - TZ_UK

StatusOf(ph) == <<"TIMED", "IN_PLAY", "PAUSED", "FINISHED">>[ph + 1]

\* score.fullTime of the API: null before kick-off, then the running score.
FullTimeOf(i, ph) ==
    CASE ph = 0 -> [home |-> NoneInt, away |-> NoneInt]
      [] ph = 1 -> [home |-> 0, away |-> 0]
      [] ph = 2 -> [home |-> i % 2, away |-> 0]
      [] ph = 3 -> [home |-> i % 2, away |-> (i + 1) % 3]

\* The league table during each matchday (team names as the API spells
\* them, best first): Fulham lead during odd matchdays, Arsenal during even ones.
LeagueTable(md) ==
    IF md % 2 = 1
    THEN <<FulhamFC, NewcastleUnitedFC, AstonVillaFC, ArsenalFC, LiverpoolFC>>
    ELSE <<ArsenalFC, ManchesterCityFC, AstonVillaFC, LiverpoolFC, ChelseaFC>>

VARIABLES
    phase,            \* source: phase[i] of fixture i
    currentMatchday,  \* source: season.currentMatchday
    file,             \* sports.json: <<>> (absent) or <<document>>
    run,              \* the run about to exit: <<>> (no process) or <<record>>
    rules_call,       \* a call of check_epl_rules on its own: arguments and result
    name_call         \* a call of normalize_team_name on its own: argument and results

vars == <<phase, currentMatchday, file, run, rules_call, name_call>>

ApiMatch(i) ==
    [id       |-> i,
     homeTeam |-> HomeTeam(i),
     awayTeam |-> AwayTeam(i),
     utcDate  |-> <<KickOffInstant(i)>>,
     matchday |-> Round(i),
     status   |-> StatusOf(phase[i]),
     score    |-> FullTimeOf(i, phase[i])]

\* The matches of a set of ids as one API page.  The API promises no order;
\* the pages of this source list the latest-created fixture (highest id) first.
RECURSIVE ApiPage(_)
ApiPage(ids) ==
    IF ids = {} THEN <<>>
    ELSE LET i == CHOOSE x \in ids : \A y \in ids : y <= x
         IN  <<ApiMatch(i)>> \o ApiPage(ids \ {i})

\* Days are counted from the Monday of the first week.
UtcDay(i) == KickOffInstant(i) \div MinutesPerDay
KstDay(i) == (KickOffInstant(i) + TZ_KST) \div MinutesPerDay
LastDay == 7 * (MaxRound + 1)

\* KST dates the clock can show in the current state of the source: not before
\* the kick-off day of a fixture that has started, not after that of one that has not.
PossibleToday ==
    {d \in 0..LastDay : /\ \A i \in Ids : phase[i] > 0 => KstDay(i) <= d
                        /\ \A i \in Ids : phase[i] = 0 => d <= KstDay(i)}

(***************************************************************************)
(* Source adapters.  A response is <<>> when the request failed (network   *)
(* error, timeout, non-200, exception) and <<payload>> otherwise.          *)
(***************************************************************************)
get_epl_standings(response) ==
    IF response # <<>> /\ response[1].table # <<>>
    THEN LET table == response[1].table
         IN  [leader   |-> normalized(table[1]),
              top_4    |-> [i \in 1..(IF Len(table) < 4 THEN Len(table) ELSE 4) |->
                               normalized(table[i])],
              matchday |-> response[1].currentMatchday]
    ELSE [leader |-> <<>>, top_4 |-> <<>>, matchday |-> NoneInt]

RECURSIVE unique_matches(_, _)
unique_matches(all_matches, seen_ids) ==
    IF all_matches = <<>> THEN <<>>
    ELSE LET m == Head(all_matches)
         IN  IF truthy(m.id) /\ m.id \notin seen_ids
             THEN <<m>> \o unique_matches(Tail(all_matches), seen_ids \cup {m.id})
             ELSE unique_matches(Tail(all_matches), seen_ids)

\* by_matchday[md] is the response to the request for matchday md, by_date
\* the response to the request for the seven days from today.
get_epl_matches(matchday, by_matchday, by_date) ==
    LET round_matches == IF truthy(matchday) /\ by_matchday[matchday] # <<>>
                         THEN by_matchday[matchday][1]
                         ELSE <<>>
        all_matches   == IF round_matches # <<>> THEN round_matches
                         ELSE IF by_date # <<>> THEN by_date[1]
                         ELSE <<>>
    IN  unique_matches(all_matches, {})

(***************************************************************************)
(* The search provider and the basketball source.  Both are outside the    *)
(* repository.  During one run the search provider is "up" (HTTP 200 with  *)
(* the page WebPage), "limited" (HTTP 429: the quota is used up) or "down" *)
(* (network error, timeout, another non-200 status, or a body that is not  *)
(* JSON); the basketball source is "up" or "down".  A response is <<>>     *)
(* for Python's None and <<payload>> otherwise.  What the regular          *)
(* expressions of the script extract from the texts of WebPage is given    *)
(* with the page.                                                          *)
(***************************************************************************)
WebPage ==
    [rank        |-> 4,
     gp_name     |-> "Japanese",
     gp_date     |-> "Mar 27-29",
     recent      |-> [event |-> "-", opponent |-> "Jannik Sinner", result |-> "W",
                      score |-> "6-4, 6-3", date |-> "-"],
     next        |-> [event |-> "Miami Open", detail |-> "2R", match_time |-> "Mar 21",
                      tournament_dates |-> "Mar 19 - 30", status |-> "Masters"]]

call_serper_api(api_key, web) ==
    IF api_key = None THEN <<>>
    ELSE IF web = "up" THEN <<WebPage>>
    ELSE <<>>

WARRIORS_TEAM_ID == 10
TZ_PST == 0 - 8 * 60

\* The games of the basketball source: one played (a home win), one to come.
NbaPlayed ==
    [status             |-> "Final",
     home_team          |-> [id |-> WARRIORS_TEAM_ID, name |-> "Warriors", city |-> "Golden State"],
     visitor_team       |-> [id |-> 14, name |-> "Lakers", city |-> "Los Angeles"],
     home_team_score    |-> 110,
     visitor_team_score |-> 102,
     datetime           |-> <<2 * MinutesPerDay + hhmm(3, 0)>>]

NbaToCome ==
    [status             |-> "7:00 pm ET",
     home_team          |-> [id |-> 24, name |-> "Suns", city |-> "Phoenix"],
     visitor_team       |-> [id |-> WARRIORS_TEAM_ID, name |-> "Warriors", city |-> "Golden State"],
     home_team_score    |-> 0,
     visitor_team_score |-> 0,
     datetime           |-> <<LastDay * MinutesPerDay + hhmm(2, 0)>>]

\* window: "past" (the last 30 days), "season", "future" (the next 14 days).
call_balldontlie_api(window, api_key, nba) ==
    IF api_key = None THEN <<>>
    ELSE IF nba = "up"
         THEN <<[data |-> IF window = "future" THEN <<NbaToCome>> ELSE <<NbaPlayed>>]>>
         ELSE <<>>

get_nba_default_data ==
    [record   |-> <<>>,
     rank     |-> <<"-">>,
     last     |-> [opp |-> "-", result |-> "-", score |-> <<>>],
     schedule |-> <<>>]

\* The Final games of a response, and those of them the Warriors won / lost.
final_games(response) ==
    IF response = <<>> THEN <<>>
    ELSE SelectSeq(response[1].data, LAMBDA g : g.status = "Final")

warriors_won(game) ==
    IF game.home_team.id = WARRIORS_TEAM_ID
    THEN game.home_team_score > game.visitor_team_score
    ELSE game.visitor_team.id = WARRIORS_TEAM_ID
         /\ game.visitor_team_score > game.home_team_score

warriors_played(game) ==
    game.home_team.id = WARRIORS_TEAM_ID \/ game.visitor_team.id = WARRIORS_TEAM_ID

\* The season record "w-l" is the pair <<w, l>>, and '-' is <<>>.
nba_record(season_games) ==
    LET played == SelectSeq(final_games(season_games), warriors_played)
        wins   == Len(SelectSeq(played, warriors_won))
    IN  IF Len(played) > 0 THEN <<wins, Len(played) - wins>> ELSE <<>>

\* The rank "#n West" is <<"#", n, " West">>, and '-' is <<"-">>.
nba_rank(rank_result) ==
    IF rank_result # <<>> /\ rank_result[1].rank \in 1..15
    THEN <<"#", rank_result[1].rank, " West">>
    ELSE <<"-">>

nba_last(past_games) ==
    IF final_games(past_games) = <<>>
    THEN [opp |-> "-", result |-> "-", score |-> <<>>]
    ELSE LET last_game == final_games(past_games)[1]
             at_home   == last_game.home_team.id = WARRIORS_TEAM_ID
             warriors_score == IF at_home THEN last_game.home_team_score
                               ELSE last_game.visitor_team_score
             opp_score == IF at_home THEN last_game.visitor_team_score
                          ELSE last_game.home_team_score
         IN  [opp    |-> IF at_home THEN last_game.visitor_team.name
                         ELSE last_game.home_team.name,
              result |-> IF warriors_score > opp_score THEN "W" ELSE "L",
              score  |-> <<warriors_score, opp_score>>]

\* One entry of the schedule: day and minute of day in KST, minute of day in PT.
nba_schedule_entry(game) ==
    LET at_home == game.home_team.id = WARRIORS_TEAM_ID
    IN  [opp        |-> IF at_home THEN game.visitor_team.name ELSE game.home_team.name,
         date       |-> (game.datetime[1] + TZ_KST) \div MinutesPerDay,
         kst_time   |-> (game.datetime[1] + TZ_KST) % MinutesPerDay,
         local_time |-> (game.datetime[1] + TZ_PST) % MinutesPerDay,
         location   |-> IF at_home THEN "home" ELSE "away",
         venue      |-> IF at_home THEN "Chase Center" ELSE game.home_team.city,
         channel    |-> ""]

nba_schedule(future_games) ==
    IF future_games = <<>> THEN <<>>
    ELSE LET upcoming == SelectSeq(future_games[1].data, LAMBDA g : g.status # "Final")
         IN  [i \in 1..(IF Len(upcoming) < 2 THEN Len(upcoming) ELSE 2) |->
                 nba_schedule_entry(upcoming[i])]

get_nba_warriors_data(balldontlie_key, serper_key, nba, web) ==
    IF balldontlie_key = None THEN get_nba_default_data
    ELSE [record   |-> nba_record(call_balldontlie_api("season", balldontlie_key, nba)),
          rank     |-> IF serper_key # None THEN nba_rank(call_serper_api(serper_key, web))
                       ELSE <<"-">>,
          last     |-> nba_last(call_balldontlie_api("past", balldontlie_key, nba)),
          schedule |-> nba_schedule(call_balldontlie_api("future", balldontlie_key, nba))]

\* The month of get_kst_now(): the modelled weeks lie in March.
kst_month == 3

F1_DEFAULT ==
    [status |-> "Off-Season", name |-> "Australian Grand Prix",
     circuit |-> "Albert Park, Melbourne", date |-> "Mar 2026"]

gp_circuit_map == [Australian |-> "Albert Park, Melbourne", Bahrain |-> "Sakhir",
                   Japanese |-> "Suzuka", Chinese |-> "Shanghai", Miami |-> "Miami",
                   Monaco |-> "Monaco", Canadian |-> "Montreal", Spanish |-> "Barcelona",
                   Austrian |-> "Red Bull Ring", British |-> "Silverstone"]

\* f"{gp_name.upper()} Grand Prix"
gp_title == [Australian |-> "AUSTRALIAN Grand Prix", Bahrain |-> "BAHRAIN Grand Prix",
             Japanese |-> "JAPANESE Grand Prix", Chinese |-> "CHINESE Grand Prix",
             Miami |-> "MIAMI Grand Prix", Monaco |-> "MONACO Grand Prix",
             Canadian |-> "CANADIAN Grand Prix", Spanish |-> "SPANISH Grand Prix",
             Austrian |-> "AUSTRIAN Grand Prix", British |-> "BRITISH Grand Prix"]

\* Variant: a failed search leaves the function's initial f1_data.
search_f1_schedule_tbd_on_failure(serper_key, web) ==
    IF call_serper_api(serper_key, web) = <<>>
    THEN [status |-> "Off-Season", name |-> "TBD", circuit |-> "TBD", date |-> ""]
    ELSE [status  |-> "Next GP",
          name    |-> gp_title[call_serper_api(serper_key, web)[1].gp_name],
          circuit |-> gp_circuit_map[call_serper_api(serper_key, web)[1].gp_name],
          date    |-> call_serper_api(serper_key, web)[1].gp_date]

search_f1_schedule(serper_key, web) ==
    IF kst_month <= 2
    THEN [status |-> "Pre-Season", name |-> "Test 1 (Private)",
          circuit |-> "Barcelona-Catalunya", date |-> "Jan 26-30"]
    ELSE LET result == call_serper_api(serper_key, web)
         IN  IF result = <<>> THEN F1_DEFAULT
             ELSE IF result[1].gp_name \in DOMAIN gp_circuit_map
                  THEN [status  |-> "Next GP",
                        name    |-> gp_title[result[1].gp_name],
                        circuit |-> gp_circuit_map[result[1].gp_name],
                        date    |-> result[1].gp_date]
                  ELSE [status |-> "Off-Season", name |-> "TBD", circuit |-> "TBD",
                        date |-> result[1].gp_date]

TENNIS_DEFAULT ==
    [recent |-> [event |-> "-", opponent |-> "-", result |-> "-", score |-> "-", date |-> "-"],
     next   |-> [event |-> "-", detail |-> "-", match_time |-> "TBD",
                 tournament_dates |-> "", status |-> "-"]]

search_tennis_schedule(serper_key, web) ==
    IF serper_key = None THEN TENNIS_DEFAULT
    ELSE LET recent_result == call_serper_api(serper_key, web)
             next_result   == call_serper_api(serper_key, web)
         IN  [recent |-> IF recent_result = <<>> THEN TENNIS_DEFAULT.recent
                         ELSE recent_result[1].recent,
              next   |-> IF next_result = <<>> THEN TENNIS_DEFAULT.next
                         ELSE next_result[1].next]

(***************************************************************************)
(* update_sports_data: the run and the snapshot it writes.  The timestamp  *)
(* text is not modelled ("updated" holds a fixed token); the round label   *)
(* "R<n>" is the pair <<"R", n>>.                                          *)
(***************************************************************************)
\* STEP 1: the standings, or the hardcoded defaults when they are unavailable.
have_standings(standings) == standings.leader # <<>> /\ standings.top_4 # <<>>

\* Variant: no fallback for the leader.
leader_team_of_no_fallback(standings) == standings.leader

leader_team_of(standings) ==
    IF have_standings(standings) THEN standings.leader ELSE Arsenal

top_4_teams_of(standings) ==
    IF have_standings(standings) THEN standings.top_4
    ELSE <<Arsenal, ManchesterCity, Liverpool, Chelsea>>

current_matchday_of(standings) ==
    IF have_standings(standings) THEN standings.matchday ELSE NoneInt

\* Variant: the label is always that of the selected round.
display_matchday_of_selected_only(selected_round, current_matchday) == <<"R", selected_round>>

display_matchday_of(selected_round, current_matchday) ==
    IF truthy(selected_round) THEN <<"R", selected_round>> ELSE <<"R", current_matchday>>

\* The snapshot the run writes, with the call it made to process_epl_matches
\* and the hosts it sent requests to.
sports_data_of(current_matchday, leader_team, top_4_teams, matches, existing_data, result, nba_data, f1_data, tennis_data, requests) ==
    [raised |-> FALSE,
     requests |-> requests,
     sports_data |->
       << [updated |-> "KST",
           epl |-> [matchday         |-> current_matchday,
                    selected_round   |-> result.selected_round,
                    display_matchday |-> display_matchday_of(result.selected_round,
                                                             current_matchday),
                    leader           |-> leader_team,
                    top4             |-> top_4_teams,
                    matches          |-> result.matches,
                    selected_matches |-> result.matches],
           nba    |-> nba_data,
           f1     |-> f1_data,
           tennis |-> tennis_data] >>,
     call |-> << [matches       |-> matches,
                  top_4         |-> top_4_teams,
                  leader        |-> leader_team,
                  existing_data |-> existing_data,
                  result        |-> result] >>]

\* The hosts a run with the football credential sends requests to.
hosts_called(serper_api_key, balldontlie_api_key) ==
    {"api.football-data.org"}
    \cup (IF balldontlie_api_key # None THEN {"api.balldontlie.io"} ELSE {})
    \cup (IF serper_api_key # None THEN {"google.serper.dev"} ELSE {})

\* The selection, and STEP 3 to STEP 5: basketball, motor racing, tennis.
update_with_matches(current_matchday, leader_team, top_4_teams, matches, serper_api_key, balldontlie_api_key, existing_data, web, nba) ==
    sports_data_of(current_matchday, leader_team, top_4_teams, matches, existing_data,
                   process_epl_matches(matches, top_4_teams, leader_team, serper_api_key,
                                       existing_data, web),
                   IF balldontlie_api_key # None
                   THEN get_nba_warriors_data(balldontlie_api_key, serper_api_key, nba, web)
                   ELSE get_nba_default_data,
                   IF serper_api_key # None THEN search_f1_schedule(serper_api_key, web)
                   ELSE F1_DEFAULT,
                   search_tennis_schedule(serper_api_key, web),
                   hosts_called(serper_api_key, balldontlie_api_key))

\* STEP 2: the fixtures.
update_with_standings(current_matchday, leader_team, top_4_teams, serper_api_key, balldontlie_api_key, existing_data, by_matchday, by_date, web, nba) ==
    update_with_matches(current_matchday, leader_team, top_4_teams,
                        get_epl_matches(current_matchday, by_matchday, by_date),
                        serper_api_key, balldontlie_api_key, existing_data, web, nba)

update_with_key(standings, serper_api_key, balldontlie_api_key, existing_data, by_matchday, by_date, web, nba) ==
    update_with_standings(current_matchday_of(standings), leader_team_of(standings),
                          top_4_teams_of(standings), serper_api_key, balldontlie_api_key,
                          existing_data, by_matchday, by_date, web, nba)

\* Variant: a missing football credential is not checked.
update_sports_data_unchecked_key(football_api_key, serper_api_key, balldontlie_api_key, existing_data, standings_response, by_matchday, by_date, web, nba) ==
    update_with_key(get_epl_standings(standings_response), serper_api_key, balldontlie_api_key,
                    existing_data, by_matchday, by_date, web, nba)

\* existing_data is what load_existing_sports_data() returns; it is used
\* only after the credential check.
update_sports_data(football_api_key, serper_api_key, balldontlie_api_key, existing_data, standings_response, by_matchday, by_date, web, nba) ==
    IF football_api_key = None
    THEN [raised |-> TRUE, requests |-> {}, sports_data |-> <<>>, call |-> <<>>]
    ELSE update_with_key(get_epl_standings(standings_response), serper_api_key,
                         balldontlie_api_key, existing_data, by_matchday, by_date, web, nba)

\* The file as json.load reads it: None when it is absent or does not parse.
load_existing_sports_data == IF Len(file) = 1 THEN file ELSE <<>>

\* json.dump raises TypeError on a datetime object.
json_serializable(sports_data) ==
    \A i \in DOMAIN sports_data.epl.selected_matches :
        "datetime_kst" \notin DOMAIN sports_data.epl.selected_matches[i]

\* open(SPORTS_FILE, 'w') empties the file and json.dump writes the document
\* piece by piece: <<document, "cut">> is the file json.dump leaves when it
\* raises part-way.
written_file(sports_data) ==
    IF json_serializable(sports_data[1]) THEN sports_data ELSE sports_data \o <<"cut">>

(***************************************************************************)
(* The state machine: the source moves on, and the scheduler runs the      *)
(* script; a run is short, and the source does not move during it.         *)
(***************************************************************************)
Init ==
    /\ phase = [i \in Ids |-> 0]
    /\ currentMatchday = 1
    /\ file = <<>>
    /\ run = <<>>
    /\ rules_call = <<>>
    /\ name_call = <<>>

KickOff(i) ==
    /\ run = <<>>
    /\ phase[i] = 0
    /\ Round(i) <= currentMatchday
    /\ \A j \in Ids : KickOffInstant(j) < KickOffInstant(i) => phase[j] = 3
    /\ phase' = [phase EXCEPT ![i] = 1]
    /\ UNCHANGED <<currentMatchday, file, run, rules_call, name_call>>

HalfTime(i) ==
    /\ run = <<>>
    /\ phase[i] = 1
    /\ phase' = [phase EXCEPT ![i] = 2]
    /\ UNCHANGED <<currentMatchday, file, run, rules_call, name_call>>

FullTime(i) ==
    /\ run = <<>>
    /\ phase[i] = 2
    /\ phase' = [phase EXCEPT ![i] = 3]
    /\ UNCHANGED <<currentMatchday, file, run, rules_call, name_call>>

\* The source moves to the next matchday once the current one is played.
NextMatchday ==
    /\ run = <<>>
    /\ currentMatchday < MaxRound
    /\ \A i \in Ids : Round(i) = currentMatchday => phase[i] = 3
    /\ currentMatchday' = currentMatchday + 1
    /\ UNCHANGED <<phase, file, run, rules_call, name_call>>

\* What the source answers to the requests of one run.  A request the run
\* does not make has no answer (<<>>).
StandingsResponses ==
    {<<>>, <<[table |-> LeagueTable(currentMatchday), currentMatchday |-> currentMatchday]>>}

MatchdayResponses(requested) ==
    IF requested
    THEN { [md \in 1..MaxRound |-> <<>>],
           [md \in 1..MaxRound |-> <<ApiPage({i \in Ids : Round(i) = md})>>] }
    ELSE { [md \in 1..MaxRound |-> <<>>] }

DateResponses(requested) ==
    IF requested
    THEN {<<>>} \cup { <<ApiPage({i \in Ids : today <= UtcDay(i) /\ UtcDay(i) <= today + 7})>> :
                         today \in PossibleToday }
    ELSE { <<>> }

\* The write and __main__: the file is written unless update_sports_data
\* raised before the write; the exit code is 1 when anything raised.  The
\* record of the run keeps, for observation, the file as it was before the
\* run, the environment and what the outside sources answered.
Finish(out, inputs) ==
    /\ file' = IF out.raised THEN file ELSE written_file(out.sports_data)
    /\ run' = <<[exit_code |-> IF out.raised \/ ~json_serializable(out.sports_data[1])
                               THEN 1 ELSE 0,
                 call      |-> out.call,
                 requests  |-> out.requests,
                 before    |-> file,
                 inputs    |-> inputs]>>
    /\ UNCHANGED <<phase, currentMatchday, rules_call, name_call>>

RunWith(football_api_key, serper_api_key, balldontlie_api_key, standings_response, by_matchday, by_date, web, nba) ==
    Finish(update_sports_data(football_api_key, serper_api_key, balldontlie_api_key,
                              load_existing_sports_data, standings_response, by_matchday,
                              by_date, web, nba),
           [football_api_key    |-> football_api_key,
            serper_api_key      |-> serper_api_key,
            balldontlie_api_key |-> balldontlie_api_key,
            standings           |-> IF standings_response = <<>> THEN "down" ELSE "up",
            fixtures            |-> IF by_date = <<>> /\ \A md \in DOMAIN by_matchday :
                                                            by_matchday[md] = <<>>
                                    THEN "down" ELSE "up",
            web                 |-> web,
            nba                 |-> nba])

\* The matchday request is made when the standings gave a matchday, the
\* date-window request when the matchday request brought no match.
matchday_requested(football_api_key, standings) ==
    football_api_key # None /\ truthy(current_matchday_of(standings))

date_requested(football_api_key, standings, by_matchday) ==
    /\ football_api_key # None
    /\ get_epl_matches(current_matchday_of(standings), by_matchday, <<>>) = <<>>

\* The two secondary credentials and what their sources answer during one
\* run.  The credentials are configured together and the two sources are
\* reached over the same network: both answer or neither does.  (AnyRun
\* below draws the four independently.)
NoSecondary ==
    [serper_api_key |-> None, web |-> "down", balldontlie_api_key |-> None, nba |-> "down"]

SecondarySources ==
    {NoSecondary,
     [serper_api_key |-> "key", web |-> "up", balldontlie_api_key |-> "key", nba |-> "up"],
     [serper_api_key |-> "key", web |-> "down", balldontlie_api_key |-> "key", nba |-> "down"]}

\* The scheduler starts the script when no run is in progress.
Run ==
    /\ run = <<>>
    /\ \E football_api_key \in {None, "key"} :
       \E standings_response \in IF football_api_key = None THEN {<<>>} ELSE StandingsResponses :
       \E by_matchday \in MatchdayResponses(
                             matchday_requested(football_api_key,
                                                get_epl_standings(standings_response))) :
       \E by_date \in DateResponses(
                         date_requested(football_api_key, get_epl_standings(standings_response),
                                        by_matchday)) :
       \E secondary \in IF football_api_key = None THEN {NoSecondary} ELSE SecondarySources :
           RunWith(football_api_key, secondary.serper_api_key, secondary.balldontlie_api_key,
                   standings_response, by_matchday, by_date, secondary.web, secondary.nba)

\* A run in which the credential is set and the football source answers
\* both the standings request and the matchday request.
HealthyRun ==
    /\ run = <<>>
    /\ \E secondary \in SecondarySources :
          RunWith("key", secondary.serper_api_key, secondary.balldontlie_api_key,
                  <<[table |-> LeagueTable(currentMatchday), currentMatchday |-> currentMatchday]>>,
                  [md \in 1..MaxRound |-> <<ApiPage({i \in Ids : Round(i) = md})>>],
                  <<>>, secondary.web, secondary.nba)

\* sys.exit: the process ends.
Exit ==
    /\ run # <<>>
    /\ run' = <<>>
    /\ UNCHANGED <<phase, currentMatchday, file, rules_call, name_call>>

Next ==
    \/ \E i \in Ids : KickOff(i)
    \/ \E i \in Ids : HalfTime(i)
    \/ \E i \in Ids : FullTime(i)
    \/ NextMatchday
    \/ Run
    \/ Exit

Spec == Init /\ [][Next]_vars

\* The same machine when the credential is set and the football source
\* answers every request.  The scheduler keeps invoking the script (again
\* and again a run is in progress), and every run ends.
HealthyNext ==
    \/ \E i \in Ids : KickOff(i)
    \/ \E i \in Ids : HalfTime(i)
    \/ \E i \in Ids : FullTime(i)
    \/ NextMatchday
    \/ HealthyRun
    \/ Exit

RunsKeepStarting == []<>(run # <<>>)

FairSpec == Init /\ [][HealthyNext]_vars /\ WF_vars(Exit) /\ RunsKeepStarting

(***************************************************************************)
(* Runs over a source that stands still, with every credential and every   *)
(* outside source drawn on its own: the football adapters, the search      *)
(* provider and the basketball source fail in any combination.             *)
(***************************************************************************)
\* The source at the start of the season, and once the first fixture to
\* kick off (Saturday 12:30) is under way.
OutageSources ==
    { [i \in Ids |-> 0],
      [i \in Ids |-> IF \A j \in Ids : KickOffInstant(i) <= KickOffInstant(j) THEN 1 ELSE 0] }

InitOutage ==
    /\ phase \in OutageSources
    /\ currentMatchday = 1
    /\ file = <<>>
    /\ run = <<>>
    /\ rules_call = <<>>
    /\ name_call = <<>>

AnyRun ==
    /\ run = <<>>
    /\ \E football_api_key \in {None, "key"} :
       \E standings_response \in IF football_api_key = None THEN {<<>>} ELSE StandingsResponses :
       \E by_matchday \in MatchdayResponses(
                             matchday_requested(football_api_key,
                                                get_epl_standings(standings_response))) :
       \E by_date \in DateResponses(
                         date_requested(football_api_key, get_epl_standings(standings_response),
                                        by_matchday)) :
       \E serper_api_key \in {None, "key"} :
       \E web \in IF football_api_key = None \/ serper_api_key = None
                  THEN {"down"} ELSE {"up", "down", "limited"} :
       \E balldontlie_api_key \in {None, "key"} :
       \E nba \in IF football_api_key = None \/ balldontlie_api_key = None
                  THEN {"down"} ELSE {"up", "down"} :
           RunWith(football_api_key, serper_api_key, balldontlie_api_key, standings_response,
                   by_matchday, by_date, web, nba)

NextOutage ==
    \/ AnyRun
    \/ Exit

SpecOutage == InitOutage /\ [][NextOutage]_vars

(***************************************************************************)
(* The same machine started on a snapshot file that an earlier revision of *)
(* the script (or a hand edit) left behind: a batch of four fixtures.      *)
(***************************************************************************)
LegacyEntry(i) ==
    [match_id |-> i,
     home     |-> normalized(HomeTeam(i)),
     away     |-> normalized(AwayTeam(i)),
     kst_time |-> convert_utc_to_kst(<<KickOffInstant(i)>>)[1].kst_full,
     uk_time  |-> <<convert_utc_to_kst(<<KickOffInstant(i)>>)[1].uk_day,
                    convert_utc_to_kst(<<KickOffInstant(i)>>)[1].uk_time>>,
     local    |-> "",
     rules    |-> <<"Leader">>,
     rule_str |-> <<"Leader">>,
     matchday |-> Round(i),
     status   |-> "SCHEDULED",
     score    |-> SCORE_PLACEHOLDER]

LegacyFile ==
    << [updated |-> "KST",
        epl |-> [matchday         |-> 1,
                 selected_round   |-> 1,
                 display_matchday |-> <<"R", 1>>,
                 leader           |-> Arsenal,
                 top4             |-> <<Arsenal, ManchesterCity, Liverpool, Chelsea>>,
                 matches          |-> [i \in 1..(MAX_EPL_MATCHES + 1) |-> LegacyEntry(i)],
                 selected_matches |-> [i \in 1..(MAX_EPL_MATCHES + 1) |-> LegacyEntry(i)]],
        nba    |-> get_nba_default_data,
        f1     |-> F1_DEFAULT,
        tennis |-> TENNIS_DEFAULT] >>

\* A snapshot edited by hand: one selected fixture, entered without the
\* "local" key.
SparseEntry(i) == [k \in (DOMAIN LegacyEntry(i)) \ {"local"} |-> LegacyEntry(i)[k]]

SparseFile ==
    << [LegacyFile[1] EXCEPT !.epl.matches = <<SparseEntry(2)>>,
                             !.epl.selected_matches = <<SparseEntry(2)>>] >>

InitAnyFile ==
    /\ phase = [i \in Ids |-> 0]
    /\ currentMatchday = 1
    /\ file \in {<<>>, LegacyFile, SparseFile}
    /\ run = <<>>
    /\ rules_call = <<>>
    /\ name_call = <<>>

SpecAnyFile == InitAnyFile /\ [][Next]_vars

(***************************************************************************)
(* Runs started on a previous state that cannot be used: no file, a file   *)
(* that does not parse, a document without an "epl" section, a batch that  *)
(* is empty, a batch whose entries carry no match_id.  The source stands   *)
(* still, as in SpecOutage.                                                *)
(***************************************************************************)
\* A snapshot cut short while it was written.
CutFile == LegacyFile \o <<"cut">>

\* A document with the other domains only.
NoEplFile == << [k \in (DOMAIN LegacyFile[1]) \ {"epl"} |-> LegacyFile[1][k]] >>

\* A document of a revision that filled "matches" only.
EmptyBatchFile == << [LegacyFile[1] EXCEPT !.epl.selected_matches = <<>>] >>

\* A batch entered without match ids.
NoIdEntry(i) == [k \in (DOMAIN LegacyEntry(i)) \ {"match_id"} |-> LegacyEntry(i)[k]]

NoIdFile ==
    << [LegacyFile[1] EXCEPT !.epl.matches = <<NoIdEntry(1), NoIdEntry(2)>>,
                             !.epl.selected_matches = <<NoIdEntry(1), NoIdEntry(2)>>] >>

UnusableFiles == {<<>>, CutFile, NoEplFile, EmptyBatchFile, NoIdFile}

InitUnusableFile ==
    /\ phase \in OutageSources
    /\ currentMatchday = 1
    /\ file \in UnusableFiles
    /\ run = <<>>
    /\ rules_call = <<>>
    /\ name_call = <<>>

SpecUnusableFile == InitUnusableFile /\ [][NextOutage]_vars

(***************************************************************************)
(* check_epl_rules called on its own, on arguments drawn from RuleNames,   *)
(* RuleSlots and RuleStandings.                                            *)
(***************************************************************************)
RuleNames == {ArsenalFC, Spurs, ManUtd, ChelseaFC, AstonVillaFC, NewcastleUnitedFC, FulhamFC}

RuleSlots == {<<"Sunday", hhmm(16, 30)>>, <<"Saturday", hhmm(12, 30)>>, <<"Saturday", hhmm(15, 0)>>}

RuleStandings ==
    { get_epl_standings(<<[table |-> LeagueTable(md), currentMatchday |-> md]>>) : md \in 1..2 }
    \cup { [leader |-> Arsenal, top_4 |-> <<Arsenal, ManchesterCity, Liverpool, Chelsea>>,
            matchday |-> NoneInt],
          [leader |-> <<>>, top_4 |-> <<Chelsea, Tottenham, FulhamFC, ManchesterUnited>>,
            matchday |-> NoneInt] }

InitRules ==
    /\ phase = [i \in Ids |-> 0]
    /\ currentMatchday = 1
    /\ file = <<>>
    /\ run = <<>>
    /\ name_call = <<>>
    /\ \E home \in RuleNames, away \in RuleNames, slot \in RuleSlots, st \in RuleStandings :
          /\ home # away
          /\ rules_call = <<[home |-> home, away |-> away, uk_day |-> slot[1],
                             uk_time |-> slot[2], top_4 |-> st.top_4, leader |-> st.leader,
                             returned |-> FALSE, rules |-> <<>>]>>

CallCheckEplRules ==
    /\ rules_call # <<>>
    /\ ~rules_call[1].returned
    /\ rules_call' = <<[rules_call[1] EXCEPT
                           !.returned = TRUE,
                           !.rules = check_epl_rules(rules_call[1].home, rules_call[1].away,
                                                     rules_call[1].uk_day, rules_call[1].uk_time,
                                                     rules_call[1].top_4, rules_call[1].leader)]>>
    /\ UNCHANGED <<phase, currentMatchday, file, run, name_call>>

NextRules == CallCheckEplRules

SpecRules == InitRules /\ [][NextRules]_vars

(***************************************************************************)
(* normalize_team_name called on its own, and again on its own result.     *)
(* The argument is a concatenation of at most MaxPieces pieces.            *)
(***************************************************************************)
MaxPieces == 4

NamePieces == {Spurs, ArsenalFC, ManCity, SuffixFC, <<" ", "F">>, <<"C">>, <<"A">>, <<" ">>}

RECURSIVE concat(_)
concat(pieces) == IF pieces = <<>> THEN <<>> ELSE Head(pieces) \o concat(Tail(pieces))

InitNames ==
    /\ phase = [i \in Ids |-> 0]
    /\ currentMatchday = 1
    /\ file = <<>>
    /\ run = <<>>
    /\ rules_call = <<>>
    /\ \E n \in 1..MaxPieces : \E pieces \in [1..n -> NamePieces] :
          name_call = <<[name |-> concat(pieces), returned |-> FALSE,
                         once |-> <<>>, twice |-> <<>>]>>

CallNormalizeTeamName ==
    /\ name_call # <<>>
    /\ ~name_call[1].returned
    /\ name_call' = <<[name_call[1] EXCEPT
                          !.returned = TRUE,
                          !.once = normalize_team_name(name_call[1].name),
                          !.twice = normalize_team_name(
                                        normalize_team_name(name_call[1].name))]>>
    /\ UNCHANGED <<phase, currentMatchday, file, run, rules_call>>

NextNames == CallNormalizeTeamName

SpecNames == InitNames /\ [][NextNames]_vars

(***************************************************************************)
(* Observation of the call of process_epl_matches made by the run that     *)
(* has just ended.                                                         *)
(***************************************************************************)
Called == run # <<>> /\ run[1].call # <<>>
Candidates == run[1].call[1].matches
PrevBatch == existing_selected_of(run[1].call[1].existing_data)
Returned == run[1].call[1].result
PersistedBatch == IF file = <<>> THEN <<>> ELSE file[1].epl.selected_matches

MatchIds(batch) == {batch[i].match_id : i \in DOMAIN batch}
IdList(batch) == [i \in DOMAIN batch |-> batch[i].match_id]

\* Where the fetched candidates list a fixture, and its fetched status.
FoundAt(match_id) == {j \in DOMAIN Candidates : Candidates[j].id = match_id}
FoundFinished(match_id) ==
    FoundAt(match_id) # {} /\ \A j \in FoundAt(match_id) : Candidates[j].status = "FINISHED"
FoundUnfinished(match_id) ==
    \E j \in FoundAt(match_id) : Candidates[j].status # "FINISHED"

\* A member of the previous batch that the code counts as not finished: found
\* unfinished, or not found and stored with a status other than FINISHED.
CountsAsUnfinished(sel) ==
    \/ FoundUnfinished(sel.match_id)
    \/ FoundAt(sel.match_id) = {} /\ sel.status # "FINISHED"

\* The tiers a fetched candidate matches under the standings of the call.
CandidateRules(j) ==
    LET ti == convert_utc_to_kst(Candidates[j].utcDate)[1]
    IN  check_epl_rules(Candidates[j].homeTeam, Candidates[j].awayTeam, ti.uk_day, ti.uk_time,
                        run[1].call[1].top_4, run[1].call[1].leader)

Qualifying == {j \in DOMAIN Candidates :
                  Candidates[j].status # "FINISHED" /\ CandidateRules(j) # <<>>}

Fresh == Called /\ Returned.is_new_selection
Batch == Returned.matches
Min(a, b) == IF a < b THEN a ELSE b

\* The fetched candidate a batch entry stands for (ids are unique in the list).
CandOf(match_id) == CHOOSE j \in FoundAt(match_id) : TRUE

\* The sorting tier and the kick-off of a qualifying candidate.
BestTier(j) ==
    LET tiers == {TIER_PRIORITY[CandidateRules(j)[k]] : k \in DOMAIN CandidateRules(j)}
    IN  CHOOSE t \in tiers : \A u \in tiers : t <= u
KickOffKst(j) == Candidates[j].utcDate[1] + TZ_KST
CandKey(j) == <<BestTier(j), KickOffKst(j)>>
KeyBefore(a, b) == a[1] < b[1] \/ (a[1] = b[1] /\ a[2] < b[2])

\* Every member of the previous batch is listed by the fetch as FINISHED.
AllFoundFinished ==
    /\ Called
    /\ PrevBatch # <<>>
    /\ \A i \in DOMAIN PrevBatch : FoundFinished(PrevBatch[i].match_id)

\* Some member of the previous batch counts as not finished.
SomeCountsAsUnfinished ==
    Called /\ \E i \in DOMAIN PrevBatch : CountsAsUnfinished(PrevBatch[i])

\* An entry with its refreshable fields blanked.
Identity(m) == [m EXCEPT !.status = "", !.score = <<>>]

\* The matchday the run asked for (None when the standings were unavailable),
\* and the fixtures of the round after it that are not finished at the source
\* and match a tier under the standings of the run.
FetchedRound == file[1].epl.matchday
SourceRules(i) ==
    LET ti == convert_utc_to_kst(<<KickOffInstant(i)>>)[1]
    IN  check_epl_rules(HomeTeam(i), AwayTeam(i), ti.uk_day, ti.uk_time,
                        run[1].call[1].top_4, run[1].call[1].leader)
NextRoundQualifying ==
    {i \in Ids : /\ truthy(FetchedRound)
                 /\ Round(i) = FetchedRound + 1
                 /\ phase[i] # 3
                 /\ SourceRules(i) # <<>>}

\* The persisted batch is non-empty and all its fixtures are finished at the source.
BatchFinishedAtSource ==
    /\ PersistedBatch # <<>>
    /\ \A i \in DOMAIN PersistedBatch : phase[PersistedBatch[i].match_id] = 3

\* check_epl_rules has returned, and both names are big-6 names.
RulesReturned == rules_call # <<>> /\ rules_call[1].returned
BothBig6 ==
    /\ is_big_6(normalize_team_name(rules_call[1].home))
    /\ is_big_6(normalize_team_name(rules_call[1].away))

(***************************************************************************)
(* C1. Carry-over stability.                                               *)
(***************************************************************************)
\* C1 as stated: whenever some member of the previous batch is stored with a
\* status other than FINISHED, the returned batch has the previous batch's set
\* of match_ids, whatever the fetched candidates are.
C1_StoredStatusKeepsMembership ==
    (Called /\ \E i \in DOMAIN PrevBatch : PrevBatch[i].status # "FINISHED")
        => MatchIds(Returned.matches) = MatchIds(PrevBatch)

\* C1 amended: whenever some member of the previous batch counts as not
\* finished against the fetched candidates (found there with a status other
\* than FINISHED, or not found and stored with a status other than FINISHED),
\* the returned batch lists the previous batch's match_ids, in the same order.
C1_CarryOverStability ==
    (Called /\ \E i \in DOMAIN PrevBatch : CountsAsUnfinished(PrevBatch[i]))
        => /\ MatchIds(Returned.matches) = MatchIds(PrevBatch)
           /\ IdList(Returned.matches) = IdList(PrevBatch)

\* A retained batch in which one member was found unfinished, one was found
\* finished and the stored status of a member was refreshed.
C1_Witness ==
    /\ Called
    /\ \E i \in DOMAIN PrevBatch : FoundUnfinished(PrevBatch[i].match_id)
    /\ \E i \in DOMAIN PrevBatch : FoundFinished(PrevBatch[i].match_id)
    /\ Returned.matches # PrevBatch
    /\ MatchIds(Returned.matches) = MatchIds(PrevBatch)

(***************************************************************************)
(* C2. Batch supersession across runs.                                     *)
(***************************************************************************)
\* C2: once every fixture of the persisted batch has finished at the source,
\* a later run supersedes the batch (it is not retained forever), given that
\* healthy runs keep happening.
C2_SupersededOnceFinished == BatchFinishedAtSource ~> ~BatchFinishedAtSource

(***************************************************************************)
(* C3. Fresh selection once every previous member is found FINISHED.       *)
(***************************************************************************)
\* C3: when the fetch lists every member of the previous batch as FINISHED,
\* the call returns a fresh selection (is_new_selection) over the fetched
\* candidates: as many qualifying unfinished candidates as fit, none of them a
\* member of the previous batch.
C3_FreshAfterAllFinished ==
    AllFoundFinished
        => /\ Returned.is_new_selection
           /\ MatchIds(Batch) \cap MatchIds(PrevBatch) = {}
           /\ \A i \in DOMAIN Batch : FoundUnfinished(Batch[i].match_id)
           /\ MatchIds(Batch) \subseteq {Candidates[j].id : j \in Qualifying}
           /\ Len(Batch) = Min(MAX_EPL_MATCHES, Cardinality(Qualifying))

\* A previous batch of several fixtures, all found FINISHED, replaced by a
\* non-empty fresh batch.
C3_Witness ==
    /\ AllFoundFinished
    /\ Len(PrevBatch) > 1
    /\ Returned.is_new_selection
    /\ Batch # <<>>

C5_WidensToNextRound ==
    (/\ Fresh
     /\ Candidates # <<>>
     /\ \A j \in DOMAIN Candidates : Candidates[j].matchday = FetchedRound
     /\ NextRoundQualifying # {})
        => Batch # <<>>

\* C5 amended: when no member of the previous batch counts as not finished
\* and no fetched candidate is unfinished and matches a tier, the call
\* returns a new, empty selection with no round, whatever the next round
\* holds; the empty batch is what the run persists.
C5_EmptyWhenNoCandidateQualifies ==
    (Called /\ ~SomeCountsAsUnfinished /\ Qualifying = {})
        => /\ Returned.is_new_selection
           /\ Batch = <<>>
           /\ Returned.selected_round = NoneInt
           /\ PersistedBatch = <<>>

\* A previous batch of MAX_EPL_MATCHES fixtures all found FINISHED, nothing
\* left to select in the fetched round, a qualifying fixture in the next
\* round, and an empty result.
C5_Witness ==
    /\ AllFoundFinished
    /\ Len(PrevBatch) = MAX_EPL_MATCHES
    /\ Qualifying = {}
    /\ NextRoundQualifying # {}
    /\ Batch = <<>>

C7_NoChallengerBetweenBig6 ==
    (RulesReturned /\ BothBig6) => ~list_in("Challenger", rules_call[1].rules)

\* Two big-6 names, one of them in the top 4: "Big Match" and no "Challenger".
C7_Witness ==
    /\ RulesReturned
    /\ BothBig6
    /\ list_in(normalize_team_name(rules_call[1].home), rules_call[1].top_4)
    /\ list_in("Big Match", rules_call[1].rules)
    /\ ~list_in("Challenger", rules_call[1].rules)

(***************************************************************************)
(* C8. Order of the fresh selection.                                       *)
(***************************************************************************)
\* C8: a fresh batch holds min(MAX_EPL_MATCHES, number of qualifying
\* candidates) distinct qualifying candidates, listed by (sorting tier,
\* kick-off) ascending, and no qualifying candidate left out precedes a
\* member in that order.
C8_BestKInOrder ==
    Fresh
        => /\ Len(Batch) = Min(MAX_EPL_MATCHES, Cardinality(Qualifying))
           /\ Cardinality(MatchIds(Batch)) = Len(Batch)
           /\ \A i \in DOMAIN Batch :
                 /\ FoundAt(Batch[i].match_id) # {}
                 /\ CandOf(Batch[i].match_id) \in Qualifying
           /\ \A i \in DOMAIN Batch : \A k \in DOMAIN Batch :
                 i < k => KeyBefore(CandKey(CandOf(Batch[i].match_id)),
                                    CandKey(CandOf(Batch[k].match_id)))
           /\ \A q \in Qualifying :
                 Candidates[q].id \notin MatchIds(Batch)
                     => \A i \in DOMAIN Batch :
                            KeyBefore(CandKey(CandOf(Batch[i].match_id)), CandKey(q))

\* More qualifying candidates than fit, and a member listed before a member
\* that kicks off earlier (the tier decides first).
C8_Witness ==
    /\ Fresh
    /\ Cardinality(Qualifying) > MAX_EPL_MATCHES
    /\ \E i \in DOMAIN Batch : \E k \in DOMAIN Batch :
          /\ i < k
          /\ KickOffKst(CandOf(Batch[k].match_id)) < KickOffKst(CandOf(Batch[i].match_id))

(***************************************************************************)
(* C9. No fixture without a tier.                                          *)
(***************************************************************************)
\* C9: every entry of a fresh batch has a non-empty rules list, the list
\* check_epl_rules gives for its candidate.
C9_FreshEntriesMatchATier ==
    Fresh => \A i \in DOMAIN Batch :
                 /\ Batch[i].rules # <<>>
                 /\ FoundAt(Batch[i].match_id) # {}
                 /\ Batch[i].rules = CandidateRules(CandOf(Batch[i].match_id))

\* A fresh batch with room left while an unfinished candidate matches no tier.
C9_Witness ==
    /\ Fresh
    /\ Batch # <<>>
    /\ Len(Batch) < MAX_EPL_MATCHES
    /\ \E j \in DOMAIN Candidates :
          Candidates[j].status # "FINISHED" /\ CandidateRules(j) = <<>>

(***************************************************************************)
(* C10. No FINISHED fixture in a fresh selection.                          *)
(***************************************************************************)
\* C10: no entry of a fresh batch stands for a candidate the fetch lists as
\* FINISHED, nor for a fixture that is finished at the source.
C10_FreshEntriesNotFinished ==
    Fresh => \A i \in DOMAIN Batch :
                 /\ \A j \in FoundAt(Batch[i].match_id) : Candidates[j].status # "FINISHED"
                 /\ phase[Batch[i].match_id] # 3

\* A fresh batch with room left while a FINISHED candidate matches a tier.
C10_Witness ==
    /\ Fresh
    /\ Batch # <<>>
    /\ Len(Batch) < MAX_EPL_MATCHES
    /\ \E j \in DOMAIN Candidates :
          Candidates[j].status = "FINISHED" /\ CandidateRules(j) # <<>>

(***************************************************************************)
(* C12. Normalisation applied twice.                                       *)
(***************************************************************************)
NameReturned == name_call # <<>> /\ name_call[1].returned

\* The name is an alias key of BIG_6_ALIASES.
ExactAliasHit(name) == \E k \in DOMAIN BIG_6_ALIASES : BIG_6_ALIASES[k][1] = name

\* The name is no alias key but contains one, letter case aside.
AliasSubstringOnly(name) ==
    /\ ~ExactAliasHit(name)
    /\ \E k \in DOMAIN BIG_6_ALIASES :
          str_in(str_lower(BIG_6_ALIASES[k][1]), str_lower(name))

\* " FC" occurs in the name only as its last three characters, if at all.
FCOnlyAsSuffix(name) ==
    \A i \in 1..(Len(name) - 2) :
        SubSeq(name, i, i + 2) = SuffixFC => i = Len(name) - 2

\* C12 as stated: for every name, normalising the normalised name gives the
\* normalised name.
C12_IdempotentOnEveryName ==
    NameReturned => name_call[1].twice = name_call[1].once

\* C12: for every name in which " FC" occurs at most once, as its suffix,
\* normalising the normalised name gives the normalised name.
C12_IdempotentOnSuffixFC ==
    (NameReturned /\ FCOnlyAsSuffix(name_call[1].name))
        => name_call[1].twice = name_call[1].once

\* A name that only triggers the " FC" stripping, normalised to a shorter name.
C12_Witness ==
    /\ NameReturned
    /\ FCOnlyAsSuffix(name_call[1].name)
    /\ ~ExactAliasHit(name_call[1].name)
    /\ ~AliasSubstringOnly(name_call[1].name)
    /\ str_in(SuffixFC, name_call[1].name)
    /\ name_call[1].once # name_call[1].name
    /\ name_call[1].twice = name_call[1].once

(***************************************************************************)
(* C20. The day/time tiers do not look at the standings.                   *)
(***************************************************************************)
\* The arguments of the call as a fixture of the API with the given status,
\* kicking off in the first modelled week.
DayIndex(uk_day) == CHOOSE d \in DOMAIN DayNames : DayNames[d] = uk_day

SlotMatch(status) ==
    [id       |-> 1,
     homeTeam |-> rules_call[1].home,
     awayTeam |-> rules_call[1].away,
     utcDate  |-> <<(DayIndex(rules_call[1].uk_day) - 1) * MinutesPerDay
                    + rules_call[1].uk_time - TZ_UK>>,
     matchday |-> 1,
     status   |-> status,
     score    |-> [home |-> NoneInt, away |-> NoneInt]]

\* The selection loop appends the fixture, whatever its status short of
\* FINISHED, with the tag among its rules.
AppendedWith(tag) ==
    \A status \in {"SCHEDULED", "TIMED", "IN_PLAY", "PAUSED"} :
        LET entry == validated_match(SlotMatch(status), rules_call[1].top_4,
                                     rules_call[1].leader, None, "down")
        IN  Len(entry) = 1 /\ list_in(tag, entry[1].rules)

AtSlot(uk_day, uk_time) ==
    rules_call[1].uk_day = uk_day /\ rules_call[1].uk_time = uk_time

\* Neither side is a big-6 name, in the top 4, or the leader.
InNoGroup ==
    /\ ~is_big_6(normalize_team_name(rules_call[1].home))
    /\ ~is_big_6(normalize_team_name(rules_call[1].away))
    /\ ~list_in(normalize_team_name(rules_call[1].home), rules_call[1].top_4)
    /\ ~list_in(normalize_team_name(rules_call[1].away), rules_call[1].top_4)
    /\ ~list_in("Leader", rules_call[1].rules)

\* C20: whatever the standings and whoever plays, check_epl_rules tags a
\* Sunday 16:30 (UK) fixture "Prime Time" and a Saturday 12:30 (UK) fixture
\* "Early KO", and the selection loop appends such a fixture with that tag
\* unless it is FINISHED.
C20_SlotTiersIgnoreStandings ==
    RulesReturned =>
        /\ AtSlot("Sunday", hhmm(16, 30))
              => list_in("Prime Time", rules_call[1].rules) /\ AppendedWith("Prime Time")
        /\ AtSlot("Saturday", hhmm(12, 30))
              => list_in("Early KO", rules_call[1].rules) /\ AppendedWith("Early KO")

\* A Sunday 16:30 fixture between two sides in no group: "Prime Time" alone.
C20_Witness ==
    /\ RulesReturned
    /\ InNoGroup
    /\ AtSlot("Sunday", hhmm(16, 30))
    /\ rules_call[1].rules = <<"Prime Time">>
    /\ AppendedWith("Prime Time")

(***************************************************************************)
(* Observation of the run that has just ended.                             *)
(***************************************************************************)
Ran == run # <<>>
Failed == Ran /\ run[1].exit_code # 0
Completed == Ran /\ run[1].exit_code = 0
HadFootballKey == Ran /\ run[1].inputs.football_api_key # None

\* The file holds one whole JSON document.
WholeDocument == Len(file) = 1 /\ json_serializable(file[1])

(***************************************************************************)
(* C13. A failed run leaves the file as it was.                            *)
(***************************************************************************)
\* C13: a run that ends with exit code 0 has written a whole document, a run
\* that ends with another exit code has left sports.json as it was before
\* the run, and sports.json is at all times either absent (no run has
\* completed yet) or one whole document, never a part of one.
C13_FailedRunLeavesFile ==
    /\ Failed => file = run[1].before
    /\ Completed => WholeDocument
    /\ file = <<>> \/ WholeDocument

\* A run fails while sports.json holds the snapshot of an earlier run with
\* a selected batch, and the snapshot is still there.
C13_Witness ==
    /\ Failed
    /\ run[1].before # <<>>
    /\ run[1].before[1].epl.selected_matches # <<>>
    /\ file = run[1].before
    /\ WholeDocument

(***************************************************************************)
(* C14. The football credential is checked first.                          *)
(***************************************************************************)
\* C14: a run without FOOTBALL_DATA_API_KEY ends with a non-zero exit code,
\* has sent no request to any host, has not called process_epl_matches, and
\* has left sports.json as it was.
C14_NoKeyAbortsBeforeAnyRequest ==
    (Ran /\ run[1].inputs.football_api_key = None)
        => /\ run[1].exit_code # 0
           /\ run[1].requests = {}
           /\ run[1].call = <<>>
           /\ file = run[1].before

\* The two other credentials are set, an earlier run has written a
\* snapshot, and the run without the football credential has contacted no
\* host and left the snapshot in place.
C14_Witness ==
    /\ Ran
    /\ run[1].inputs.football_api_key = None
    /\ run[1].inputs.serper_api_key # None
    /\ run[1].inputs.balldontlie_api_key # None
    /\ run[1].exit_code = 1
    /\ run[1].requests = {}
    /\ file # <<>>
    /\ file = run[1].before

(***************************************************************************)
(* C15. The quota of the search provider.                                  *)
(***************************************************************************)
\* The run sent its searches with a credential and the provider answered
\* them with HTTP 429.
SearchQuotaUsedUp ==
    /\ HadFootballKey
    /\ run[1].inputs.serper_api_key # None
    /\ run[1].inputs.web = "limited"
    /\ "google.serper.dev" \in run[1].requests

\* C15: a run whose searches the provider answers with its rate-limit
\* signal ends with a non-zero exit code and leaves sports.json as it was
\* before the run.
C15_QuotaAbortsWithoutWriting ==
    SearchQuotaUsedUp => run[1].exit_code # 0 /\ file = run[1].before

(***************************************************************************)
(* C16. A source that fails is never fatal.                                *)
(***************************************************************************)
StandingsFailed == run[1].inputs.standings = "down"
FixturesFailed == run[1].inputs.fixtures = "down"
BasketballFailed ==
    run[1].inputs.balldontlie_api_key # None /\ run[1].inputs.nba = "down"
SearchFailed == run[1].inputs.serper_api_key # None /\ run[1].inputs.web # "up"

\* C16: a run with the football credential ends with exit code 0 and a whole
\* document written, whichever of the standings request, the fixture
\* requests, the basketball requests and the searches fail; and each domain
\* whose source failed holds its fallback: the hardcoded leader and top 4
\* with no matchday, the previous batch or no fixture, the '-' record, last
\* game and empty schedule, and the default F1 and tennis entries with
\* rank '-' and no broadcaster.
C16_SourceFailureNeverFatal ==
    HadFootballKey =>
        /\ run[1].exit_code = 0
        /\ WholeDocument
        /\ StandingsFailed =>
              /\ file[1].epl.matchday = NoneInt
              /\ file[1].epl.leader = Arsenal
              /\ file[1].epl.top4 = <<Arsenal, ManchesterCity, Liverpool, Chelsea>>
        /\ FixturesFailed =>
              /\ Candidates = <<>>
              /\ file[1].epl.selected_matches \in {PrevBatch, <<>>}
        /\ BasketballFailed =>
              /\ file[1].nba.record = get_nba_default_data.record
              /\ file[1].nba.last = get_nba_default_data.last
              /\ file[1].nba.schedule = <<>>
        /\ SearchFailed =>
              /\ file[1].f1 = F1_DEFAULT
              /\ file[1].tennis = TENNIS_DEFAULT
              /\ file[1].nba.rank = <<"-">>
              /\ Fresh => \A i \in DOMAIN Batch : Batch[i].local = ""

\* Every source fails in the same run, and the run still completes.
C16_Witness ==
    /\ HadFootballKey
    /\ StandingsFailed
    /\ FixturesFailed
    /\ BasketballFailed
    /\ SearchFailed
    /\ run[1].exit_code = 0
    /\ WholeDocument
    /\ file[1].nba = get_nba_default_data
    /\ file[1].f1 = F1_DEFAULT

(***************************************************************************)
(* C17. The keys of the written snapshot.                                  *)
(***************************************************************************)
EntryKeys ==
    {"match_id", "home", "away", "kst_time", "uk_time", "local", "rules", "status", "score"}

\* The top-level keys and the nested keys of the document in the file.
DocumentKeys ==
    /\ DOMAIN file[1] = {"updated", "epl", "nba", "f1", "tennis"}
    /\ DOMAIN file[1].epl = {"matchday", "selected_round", "display_matchday", "leader",
                             "top4", "matches", "selected_matches"}
    /\ DOMAIN file[1].nba = {"record", "rank", "last", "schedule"}
    /\ DOMAIN file[1].nba.last = {"opp", "result", "score"}
    /\ \A i \in DOMAIN file[1].nba.schedule :
          DOMAIN file[1].nba.schedule[i]
             = {"opp", "date", "kst_time", "local_time", "location", "venue", "channel"}
    /\ DOMAIN file[1].f1 = {"status", "name", "circuit", "date"}
    /\ DOMAIN file[1].tennis = {"recent", "next"}
    /\ DOMAIN file[1].tennis.recent = {"event", "opponent", "result", "score", "date"}
    /\ DOMAIN file[1].tennis.next
          = {"event", "detail", "match_time", "tournament_dates", "status"}

SeedTop4 == <<Arsenal, ManchesterCity, Liverpool, Chelsea>>
SeedLeader == Arsenal

\* C18: when the standings request fails, the run still calls
\* process_epl_matches, with the hardcoded top 4 and leader; the tags of a
\* fresh batch are those check_epl_rules gives under these (and BIG_6); and
\* the run ends with exit code 0 and the snapshot written, recording the
\* same leader and top 4.
C18_ClassifierRunsOnSeedStandings ==
    (HadFootballKey /\ StandingsFailed) =>
        /\ Called
        /\ run[1].call[1].top_4 = SeedTop4
        /\ run[1].call[1].leader = SeedLeader
        /\ Fresh => \A i \in DOMAIN Batch :
                       \E j \in DOMAIN Candidates :
                           /\ Candidates[j].id = Batch[i].match_id
                           /\ LET ti == convert_utc_to_kst(Candidates[j].utcDate)[1]
                              IN  Batch[i].rules
                                     = check_epl_rules(Candidates[j].homeTeam,
                                                       Candidates[j].awayTeam, ti.uk_day,
                                                       ti.uk_time, SeedTop4, SeedLeader)
        /\ Completed
        /\ WholeDocument
        /\ file[1].epl.leader = SeedLeader
        /\ file[1].epl.top4 = SeedTop4
        /\ file[1].epl.selected_matches = Batch

\* The standings request fails while another club leads the table; the
\* fixtures come from the date window, and the fresh batch has a fixture
\* tagged "Leader" for the seed leader.
C18_Witness ==
    /\ HadFootballKey
    /\ StandingsFailed
    /\ normalize_team_name(LeagueTable(currentMatchday)[1]) # SeedLeader
    /\ Fresh
    /\ \E i \in DOMAIN Batch :
          /\ list_in("Leader", Batch[i].rules)
          /\ Batch[i].home = SeedLeader
    /\ Completed
    /\ file[1].epl.selected_matches = Batch

(***************************************************************************)
(* C19. An empty selection is not an error.                                *)
(***************************************************************************)
\* The run selects anew and no fetched candidate qualifies.
NothingToSelect == Called /\ ~SomeCountsAsUnfinished /\ Qualifying = {}

FixturesAndTags(batch) == [i \in DOMAIN batch |-> <<batch[i].match_id, batch[i].rules>>]

\* process_epl_matches called again on the standings, the candidates and the
\* previous snapshot of the run's call, with another search credential and
\* another state of the search provider.
CalledAgain(serper_key, web) ==
    process_epl_matches(Candidates, run[1].call[1].top_4, run[1].call[1].leader, serper_key,
                        run[1].call[1].existing_data, web)

\* C11: whatever else differs between two invocations (the search
\* credential, what the search provider answers), process_epl_matches
\* called on the same standings, the same candidates and the same previous
\* snapshot returns the same fixtures in the same order with the same tags,
\* the same round and the same kind of selection.
C11_SameInputsSameBatch ==
    Called =>
        \A s \in SecondarySources :
            /\ FixturesAndTags(CalledAgain(s.serper_api_key, s.web).matches)
                  = FixturesAndTags(Batch)
            /\ CalledAgain(s.serper_api_key, s.web).selected_round = Returned.selected_round
            /\ CalledAgain(s.serper_api_key, s.web).is_new_selection
                  = Returned.is_new_selection

\* A fresh selection made while the search provider answered, holding a
\* fixture with a broadcaster: the same call without the provider returns
\* the same fixtures and tags, and the entry without the broadcaster.
C11_Witness ==
    /\ Fresh
    /\ Len(Batch) = MAX_EPL_MATCHES
    /\ \E i \in DOMAIN Batch : Batch[i].local # ""
    /\ FixturesAndTags(CalledAgain(None, "down").matches) = FixturesAndTags(Batch)
    /\ CalledAgain(None, "down").matches # Batch

(***************************************************************************)
(* C21. A missing optional credential degrades only its own domain.        *)
(***************************************************************************)
\* STEP 2 (after the fetch) to the save of the run that has just ended, done
\* again on the same football data and the same previous snapshot with other
\* optional credentials and other answers of their sources.
RunAgain(serper_api_key, balldontlie_api_key, web, nba) ==
    update_with_matches(file[1].epl.matchday, run[1].call[1].leader, run[1].call[1].top_4,
                        Candidates, serper_api_key, balldontlie_api_key,
                        run[1].call[1].existing_data, web, nba)

\* A batch with the broadcaster of each entry blanked.
WithoutChannel(batch) == [i \in DOMAIN batch |-> [batch[i] EXCEPT !.local = ""]]

\* C21: for the football data and the previous snapshot of a completed run,
\* the persisted batch is the same, entry by entry and field by field except
\* for the broadcaster ("local"), whichever of SERPER_API_KEY and
\* BALLDONTLIE_API_KEY are set and whatever their sources answer; the round
\* and the round label are the same too, and no combination raises.
C21_OptionalKeysLeaveBatch ==
    (Completed /\ Called) =>
        \A serper_api_key \in {None, "key"}, balldontlie_api_key \in {None, "key"} :
        \A web \in {"up", "down", "limited"}, nba \in {"up", "down"} :
            /\ ~RunAgain(serper_api_key, balldontlie_api_key, web, nba).raised
            /\ WithoutChannel(RunAgain(serper_api_key, balldontlie_api_key, web, nba)
                                 .sports_data[1].epl.selected_matches)
                  = WithoutChannel(PersistedBatch)
            /\ RunAgain(serper_api_key, balldontlie_api_key, web, nba)
                  .sports_data[1].epl.display_matchday = file[1].epl.display_matchday

\* A completed run with both optional credentials, whose sources answered,
\* persisted a batch with a broadcaster; the same run without the two
\* credentials persists a batch that differs (in the broadcaster only, by
\* C21) and other basketball data.
C21_Witness ==
    /\ Completed
    /\ Called
    /\ run[1].inputs.serper_api_key # None
    /\ run[1].inputs.balldontlie_api_key # None
    /\ \E i \in DOMAIN PersistedBatch : PersistedBatch[i].local # ""
    /\ RunAgain(None, None, "down", "down").sports_data[1].epl.selected_matches
          # PersistedBatch
    /\ RunAgain(None, None, "down", "down").sports_data[1].nba # file[1].nba

(***************************************************************************)
(* C22. Frame of a retained run.                                           *)
(***************************************************************************)
Retained == Called /\ ~Returned.is_new_selection
RefreshedKeys == {"status", "score"}

\* C22: when process_epl_matches retains the previous batch, the returned
\* list has the length and the order of the previous batch and the stored
\* round; an entry whose fixture the fetch lists has the keys of the stored
\* entry and the stored value under every key but "status" and "score"; an
\* entry whose fixture the fetch does not list is the stored entry.
C22_RetainedRunChangesStatusAndScoreOnly ==
    Retained =>
        /\ Len(Batch) = Len(PrevBatch)
        /\ Returned.selected_round = existing_round_of(run[1].call[1].existing_data)
        /\ \A i \in DOMAIN PrevBatch :
              /\ Batch[i].match_id = PrevBatch[i].match_id
              /\ DOMAIN Batch[i] = DOMAIN PrevBatch[i]
              /\ \A k \in (DOMAIN PrevBatch[i]) \ RefreshedKeys : Batch[i][k] = PrevBatch[i][k]
              /\ FoundAt(PrevBatch[i].match_id) = {} => Batch[i] = PrevBatch[i]

\* A retained batch of several entries: one, stored with a broadcaster, is
\* listed by the fetch and comes back with another status and score, and one
\* is not listed.
C22_Witness ==
    /\ Retained
    /\ Len(PrevBatch) > 1
    /\ \E i \in DOMAIN PrevBatch :
          /\ FoundAt(PrevBatch[i].match_id) # {}
          /\ PrevBatch[i].local # ""
          /\ Batch[i].status # PrevBatch[i].status
          /\ Batch[i].score # PrevBatch[i].score
    /\ \E i \in DOMAIN PrevBatch : FoundAt(PrevBatch[i].match_id) = {}

(***************************************************************************)
(* C23. The scoreline of a fixture that has left Scheduled.                *)
(***************************************************************************)
\* The statuses of a fixture that has not kicked off.
ScheduledStatuses == {"SCHEDULED", "TIMED"}

\* C23: in every persisted batch, an entry whose status is no longer a
\* scheduled one (the fixture is in play, paused at half-time or finished)
\* has a score, not the placeholder '-'.
C23_ScoreOnceLeftScheduled ==
    \A i \in DOMAIN PersistedBatch :
        PersistedBatch[i].status \notin ScheduledStatuses
            => PersistedBatch[i].score # SCORE_PLACEHOLDER

(***************************************************************************)
(* C24. Participant names of a selected fixture.                           *)
(***************************************************************************)
\* Two fixtures as the API lists them, not kicked off: the name at home to a
\* big-6 side, and the name away at one.
NamedFixtures(name) ==
    << [ApiMatch(1) EXCEPT !.homeTeam = name, !.awayTeam = ArsenalFC, !.status = "TIMED"],
       [ApiMatch(2) EXCEPT !.homeTeam = LiverpoolFC, !.awayTeam = name, !.status = "TIMED"] >>

\* The batch process_epl_matches selects from them on the first run (no
\* previous snapshot) under the seed standings.
SelectedWith(name) ==
    process_epl_matches(NamedFixtures(name), SeedTop4, SeedLeader, None, <<>>, "down").matches

\* C24: for every non-empty upstream team name, every entry of the batch
\* selected from fixtures that carry the name has a non-empty home name and
\* a non-empty away name.
C24_SelectedNamesNotEmpty ==
    (NameReturned /\ name_call[1].name # <<>>)
        => \A i \in DOMAIN SelectedWith(name_call[1].name) :
              /\ SelectedWith(name_call[1].name)[i].home # <<>>
              /\ SelectedWith(name_call[1].name)[i].away # <<>>

(***************************************************************************)
(* C25. The round label.                                                   *)
(***************************************************************************)
\* 'R' followed by an ordinal number.
RoundLabel(label) == Len(label) = 2 /\ label[1] = "R" /\ label[2] \in Nat \ {0}

\* C25: in every written snapshot epl.display_matchday is the letter 'R'
\* followed by an ordinal number, also after a run in which the standings
\* were unavailable and nothing was selected.
C25_RoundLabelHasOrdinal ==
    file # <<>> => RoundLabel(file[1].epl.display_matchday)

(***************************************************************************)
(* C26. A previous state that cannot be used.                              *)
(***************************************************************************)
\* The file as the run found it is absent or does not parse, or its document
\* has no "epl" section, or an empty selected_matches, or no selected entry
\* with a match_id.
Unusable(f) ==
    \/ Len(f) # 1
    \/ "epl" \notin DOMAIN f[1]
    \/ f[1].epl.selected_matches = <<>>
    \/ \A i \in DOMAIN f[1].epl.selected_matches :
          "match_id" \notin DOMAIN f[1].epl.selected_matches[i]

\* C26: a run that has the football credential and finds such a previous
\* state calls process_epl_matches, which does not raise and returns a new
\* selection (is_new_selection), the very selection it makes from the same
\* candidates when there is no previous snapshot; the run completes.
C26_UnusablePreviousStateSelectsAfresh ==
    (HadFootballKey /\ Unusable(run[1].before))
        => /\ Called
           /\ Completed
           /\ Returned.is_new_selection
           /\ Returned = process_epl_matches(Candidates, run[1].call[1].top_4,
                                             run[1].call[1].leader,
                                             run[1].inputs.serper_api_key, <<>>,
                                             run[1].inputs.web)

\* A run that found a document whose selected_matches is empty while its
\* older "matches" key lists fixtures the fetch shows as not finished, and
\* selected fixtures anew.
C26_Witness ==
    /\ HadFootballKey
    /\ Len(run[1].before) = 1
    /\ "epl" \in DOMAIN run[1].before[1]
    /\ run[1].before[1].epl.selected_matches = <<>>
    /\ run[1].before[1].epl.matches # <<>>
    /\ Called
    /\ Fresh
    /\ Batch # <<>>
    /\ \E i \in DOMAIN run[1].before[1].epl.matches :
          FoundUnfinished(run[1].before[1].epl.matches[i].match_id)

(***************************************************************************)
(* C27. Status and score of a freshly selected fixture.                    *)
(***************************************************************************)
\* The entry shows something of the source: a status other than the
\* 'SCHEDULED' every new entry starts with, or a score.
ShowsSource(m) == m.status # "SCHEDULED" \/ m.score # SCORE_PLACEHOLDER

\* C27: after a completed run that selected afresh, every persisted entry
\* has status 'SCHEDULED' and score '-', whatever status the fetch lists for
\* its fixture; and after any completed run, a persisted entry that shows a
\* status or score of the source comes from the carry-over path, where
\* either the fetch lists the fixture (found by match_id) with that status
\* or the entry stood so in the previous snapshot.
C27_FreshEntriesScheduledUntilCarryOver ==
    (Completed /\ Called) =>
        /\ Fresh => \A i \in DOMAIN PersistedBatch :
                       /\ PersistedBatch[i].status = "SCHEDULED"
                       /\ PersistedBatch[i].score = SCORE_PLACEHOLDER
        /\ \A i \in DOMAIN PersistedBatch :
              ShowsSource(PersistedBatch[i])
                  => /\ Retained
                     /\ \/ /\ FoundAt(PersistedBatch[i].match_id) # {}
                           /\ PersistedBatch[i].status
                                 = Candidates[CandOf(PersistedBatch[i].match_id)].status
                        \/ PersistedBatch[i] = PrevBatch[i]

\* A completed run that selected afresh a fixture the fetch lists as
\* IN_PLAY, persisted as 'SCHEDULED' with score '-'.
C27_Witness ==
    /\ Completed
    /\ Fresh
    /\ \E i \in DOMAIN PersistedBatch :
          /\ FoundAt(PersistedBatch[i].match_id) # {}
          /\ Candidates[CandOf(PersistedBatch[i].match_id)].status = "IN_PLAY"
          /\ PersistedBatch[i].status = "SCHEDULED"
          /\ PersistedBatch[i].score = SCORE_PLACEHOLDER

====
